---- MODULE Spec2Model ----
(***************************************************************************)
(* A model of rplc: the swap engine (rplc/lib/mirror.py, MirrorManager)    *)
(* and the markdown config parser (rplc/lib/config.py, ConfigParser).      *)
(*                                                                         *)
(* Strings are sequences of atoms.  An atom is either one special         *)
(* character ("#", " ", ".", "/", "*") or a run of word characters that   *)
(* the code never looks inside ("env", "gitignore", "rplc_active").        *)
(* A file name is therefore a sequence such as <<".", "env">>, and         *)
(* string operations of the code (concatenation, glob matching, rsplit)    *)
(* are computed on these sequences.                                        *)
(*                                                                         *)
(* A file tree is a function from names to nodes; a name not in the       *)
(* domain does not exist.  A node is a file with content or a directory   *)
(* with a file tree of its own.                                            *)
(***************************************************************************)
EXTENDS Naturals, Sequences, FiniteSets, TLC

VARIABLES mirror, proj, envrc, doc, manage, last, edits, pc

vars == <<mirror, proj, envrc, doc, manage, last, edits, pc>>

----------------------------------------------------------------------------
(* Bounds of the model.                                                    *)

\* how many things happen between the complete calls: the user edits project
\* or mirror files by hand, a call is killed part-way
MaxEdits == 1

----------------------------------------------------------------------------
(* Hosts and names.                                                        *)

\* domain.get_hostname on host h: its short lowercase name
get_hostname(h) == h

DOT == <<".">>

ORIGINAL_SUFFIX == <<".", "rplc", ".", "original">>

ACTIVE_SUFFIX == <<".", "rplc_active">>

GITIGNORE == <<".", "gitignore">>

GITIGNORE_DISABLED_SUFFIX == <<".", "rplc-disabled">>

----------------------------------------------------------------------------
(* Nodes and file trees.                                                   *)

EmptyTree == <<>>

File(c) == [dir |-> FALSE, data |-> c, ch |-> EmptyTree]

Dir(t) == [dir |-> TRUE, data |-> "", ch |-> t]

Exists(t, n) == n \in DOMAIN t

is_dir(t, n) == Exists(t, n) /\ t[n].dir

Put(t, n, node) == [x \in (DOMAIN t) \cup {n} |-> IF x = n THEN node ELSE t[x]]

Del(t, n) == [x \in (DOMAIN t) \ {n} |-> t[x]]

\* what is at n: <<node>> when n exists, <<>> when it does not
NodeAt(t, n) == IF Exists(t, n) THEN <<t[n]>> ELSE <<>>

\* Path.rglob(target) below a directory tree: the paths (sequences of names,
\* outermost first) of every entry called target, at any depth
RECURSIVE rglob(_, _)
rglob(t, target) ==
    {<<n>> : n \in {x \in DOMAIN t : x = target}}
    \cup UNION {{<<n>> \o q : q \in rglob(t[n].ch, target)} :
                 n \in {x \in DOMAIN t : t[x].dir}}

\* Path.rename(dst) inside one directory: dst is replaced when it exists
Rename(t, from, to) == Del(Put(t, to, t[from]), from)

----------------------------------------------------------------------------
(* The world one call works on: the shared mirror root m, the project     *)
(* tree p of the calling host, that project's .envrc text env, the        *)
(* messages printed so far (out) and the exit status.                     *)
(* A location is <<"m", name>> or <<"p", name>>.                          *)

InMirror(n) == <<"m", n>>

InProj(n) == <<"p", n>>

TreeOf(W, loc) == IF loc[1] = "m" THEN W.m ELSE W.p

WithTree(W, loc, t) == IF loc[1] = "m" THEN [W EXCEPT !.m = t] ELSE [W EXCEPT !.p = t]

exists(W, loc) == Exists(TreeOf(W, loc), loc[2])

\* one printed message: what it says, the path and the host it names, and
\* for the two batch errors the set of offenders
Say(W, msg, path, host) ==
    [W EXCEPT !.out = Append(@, [msg |-> msg, path |-> path, host |-> host, items |-> {}])]

\* MirrorManager._move_path: the destination is cleared, then the source is
\* renamed onto it (rename, or copy and delete across devices: same result)
_move_path(W, src, dst) ==
    LET node == TreeOf(W, src)[src[2]]
        W1   == WithTree(W, dst, Del(TreeOf(W, dst), dst[2]))
        W2   == WithTree(W1, dst, Put(TreeOf(W1, dst), dst[2], node))
    IN  WithTree(W2, src, Del(TreeOf(W2, src), src[2]))

\* MirrorManager._copy_path: the destination is cleared, then the source is
\* copied onto it (copytree for a directory, copy2 for a file)
_copy_path(W, src, dst) ==
    LET node == TreeOf(W, src)[src[2]]
        W1   == WithTree(W, dst, Del(TreeOf(W, dst), dst[2]))
    IN  WithTree(W1, dst, Put(TreeOf(W1, dst), dst[2], node))

----------------------------------------------------------------------------
(* .gitignore neutralization.                                              *)

_is_gitignore_file(n) == n = GITIGNORE

_get_neutralized_path(n) == IF n = GITIGNORE THEN GITIGNORE \o GITIGNORE_DISABLED_SUFFIX ELSE n

\* every entry called from, at any depth of tree t, renamed to its sibling to
RECURSIVE RenameAll(_, _, _)
RenameAll(t, from, to) ==
    LET here == IF Exists(t, from) THEN Rename(t, from, to) ELSE t
    IN  [n \in DOMAIN here |->
            IF here[n].dir
            THEN Dir(RenameAll(here[n].ch, from, to))
            ELSE here[n]]

\* MirrorManager._disable_gitignore_files(path), path a location
_disable_gitignore_files(W, loc) ==
    LET t == TreeOf(W, loc)
        n == loc[2]
    IN  IF is_dir(t, n)
        THEN WithTree(W, loc,
                 Put(t, n, Dir(RenameAll(t[n].ch, GITIGNORE, _get_neutralized_path(GITIGNORE)))))
        ELSE IF n = GITIGNORE /\ Exists(t, n)
        THEN WithTree(W, loc, Rename(t, n, _get_neutralized_path(GITIGNORE)))
        ELSE W

\* MirrorManager._enable_gitignore_files(path), path a location
_enable_gitignore_files(W, loc) ==
    LET t == TreeOf(W, loc)
        n == loc[2]
        disabled == _get_neutralized_path(GITIGNORE)
    IN  IF is_dir(t, n)
        THEN WithTree(W, loc, Put(t, n, Dir(RenameAll(t[n].ch, disabled, GITIGNORE))))
        ELSE IF n = GITIGNORE /\ Exists(t, disabled)
        THEN WithTree(W, loc, Rename(t, disabled, n))
        ELSE W

----------------------------------------------------------------------------
(* String helpers.                                                         *)

StartsWith(s, p) == Len(s) >= Len(p) /\ SubSeq(s, 1, Len(p)) = p

EndsWith(s, p) == Len(s) >= Len(p) /\ SubSeq(s, Len(s) - Len(p) + 1, Len(s)) = p

\* fnmatch.fnmatch(s, p) for patterns whose only wildcard is "*"
RECURSIVE fnmatch(_, _)
fnmatch(s, p) ==
    IF p = <<>> THEN s = <<>>
    ELSE IF Head(p) = "*"
         THEN fnmatch(s, Tail(p)) \/ (s # <<>> /\ fnmatch(Tail(s), p))
         ELSE s # <<>> /\ Head(s) = Head(p) /\ fnmatch(Tail(s), Tail(p))

\* the positions of "." in s
DotsOf(s) == {i \in 1..Len(s) : s[i] = "."}

MaxOf(S) == CHOOSE i \in S : \A j \in S : j <= i

\* s.rsplit('.', 2): the last three parts when s holds two dots or more,
\* fewer parts otherwise
rsplit2(s) ==
    LET D == DotsOf(s)
    IN  IF D = {} THEN <<s>>
        ELSE LET j == MaxOf(D)
                 E == {i \in D : i < j}
             IN  IF E = {} THEN <<SubSeq(s, 1, j - 1), SubSeq(s, j + 1, Len(s))>>
                 ELSE LET i == MaxOf(E)
                      IN  <<SubSeq(s, 1, i - 1), SubSeq(s, i + 1, j - 1),
                            SubSeq(s, j + 1, Len(s))>>

----------------------------------------------------------------------------
(* MirrorConfig and the paths derived from it.  Managed paths are names   *)
(* directly below the project root, so source_path and mirror_path are    *)
(* the same name, read below proj_dir and below mirror_dir.               *)

MirrorConfig(n, d) == [source_path |-> n, mirror_path |-> n, is_directory |-> d]

rel_path(config) == config.source_path

_get_backup_path(config) == rel_path(config) \o ORIGINAL_SUFFIX

_get_sentinel_path(config, h) == rel_path(config) \o DOT \o get_hostname(h) \o ACTIVE_SUFFIX

None == [path |-> <<>>, host |-> <<>>, found |-> FALSE]

\* the names sentinel_dir.glob(f"{base_name}.*.rplc_active") yields
SentinelGlob(m, config) ==
    {n \in DOMAIN m : fnmatch(n, rel_path(config) \o DOT \o <<"*">> \o ACTIVE_SUFFIX)}

\* a lookup that never finds a sentinel (a glob pattern that matches nothing)
_find_any_sentinel_none(m, config) == {None}

\* MirrorManager._find_any_sentinel: the first name the glob yields whose
\* last part is rplc_active; the glob yields names in directory order, which
\* is not specified, so every match may be the first.  The set of possible
\* results (None alone when nothing matches).
_find_any_sentinel(m, config) ==
    LET hits == {n \in SentinelGlob(m, config) :
                    Len(rsplit2(n)) >= 3 /\ rsplit2(n)[3] = <<"rplc_active">>}
    IN  IF hits = {} THEN {None}
        ELSE {[path |-> n, host |-> rsplit2(n)[2], found |-> TRUE] : n \in hits}

\* MirrorManager._get_mirror_physical_path: <<name>> of the mirror content,
\* <<>> for None
_get_mirror_physical_path(m, config) ==
    IF config.is_directory
    THEN IF Exists(m, config.mirror_path) THEN <<config.mirror_path>> ELSE <<>>
    ELSE IF _is_gitignore_file(config.mirror_path)
         THEN IF Exists(m, _get_neutralized_path(config.mirror_path))
              THEN <<_get_neutralized_path(config.mirror_path)>> ELSE <<>>
         ELSE IF Exists(m, config.mirror_path) THEN <<config.mirror_path>> ELSE <<>>

\* a pre-flight scan that looks at the top of a mirror directory only (glob
\* where the code has rglob)
RECURSIVE _find_bare_gitignore_in_mirror_glob(_, _)
_find_bare_gitignore_in_mirror_glob(m, configs) ==
    IF configs = <<>> THEN {}
    ELSE LET config == Head(configs)
             here ==
               IF config.is_directory
               THEN IF is_dir(m, config.mirror_path)
                       /\ Exists(m[config.mirror_path].ch, GITIGNORE)
                    THEN {<<config.mirror_path, GITIGNORE>>}
                    ELSE {}
               ELSE IF _is_gitignore_file(config.mirror_path) /\ Exists(m, config.mirror_path)
                    THEN {<<config.mirror_path>>}
                    ELSE {}
         IN  here \cup _find_bare_gitignore_in_mirror_glob(m, Tail(configs))

\* MirrorManager._find_bare_gitignore_in_mirror: the paths (below the mirror
\* root) of the bare .gitignore files of the selected entries
RECURSIVE _find_bare_gitignore_in_mirror(_, _)
_find_bare_gitignore_in_mirror(m, configs) ==
    IF configs = <<>> THEN {}
    ELSE LET config == Head(configs)
             here ==
               IF config.is_directory
               THEN IF Exists(m, config.mirror_path)
                    THEN IF m[config.mirror_path].dir
                         THEN {<<config.mirror_path>> \o q :
                                   q \in rglob(m[config.mirror_path].ch, GITIGNORE)}
                         ELSE {}
                    ELSE {}
               ELSE IF _is_gitignore_file(config.mirror_path)
                    THEN IF Exists(m, config.mirror_path)
                         THEN {<<config.mirror_path>>} ELSE {}
                    ELSE {}
         IN  here \cup _find_bare_gitignore_in_mirror(m, Tail(configs))

----------------------------------------------------------------------------
(* Text files.  A text is one string with "\n" atoms; a text file is       *)
(* [ex |-> whether the file exists, text |-> its content].                 *)

NL == "\n"

CR == "\r"

NoFile == [ex |-> FALSE, text |-> <<>>]

TextFile(s) == [ex |-> TRUE, text |-> s]

\* Path.read_text(): text mode with universal newlines, "\r\n" and "\r" are
\* read as "\n" (Path.write_text() on a POSIX system writes "\n" as it is)
RECURSIVE read_text(_)
read_text(s) ==
    IF s = <<>> THEN <<>>
    ELSE IF Head(s) = CR
         THEN <<NL>> \o read_text(IF Len(s) >= 2 /\ s[2] = NL
                                  THEN SubSeq(s, 3, Len(s)) ELSE Tail(s))
         ELSE <<Head(s)>> \o read_text(Tail(s))

\* the position of the first atom of s in set A, 0 when there is none
RECURSIVE FirstIn(_, _, _)
FirstIn(s, A, from) ==
    IF from > Len(s) THEN 0
    ELSE IF s[from] \in A THEN from ELSE FirstIn(s, A, from + 1)

\* str.split('\n'): one part more than there are newlines
RECURSIVE split_nl(_)
split_nl(s) ==
    LET i == FirstIn(s, {NL}, 1)
    IN  IF i = 0 THEN <<s>>
        ELSE <<SubSeq(s, 1, i - 1)>> \o split_nl(SubSeq(s, i + 1, Len(s)))

\* str.splitlines(): no empty last line after a final newline
RECURSIVE splitlines(_)
splitlines(s) ==
    IF s = <<>> THEN <<>>
    ELSE LET i == FirstIn(s, {NL}, 1)
         IN  IF i = 0 THEN <<s>>
             ELSE <<SubSeq(s, 1, i - 1)>> \o splitlines(SubSeq(s, i + 1, Len(s)))

\* str.splitlines(keepends=True): every line keeps its newline
RECURSIVE splitlines_keepends(_)
splitlines_keepends(s) ==
    IF s = <<>> THEN <<>>
    ELSE LET i == FirstIn(s, {NL}, 1)
         IN  IF i = 0 THEN <<s>>
             ELSE <<SubSeq(s, 1, i)>> \o splitlines_keepends(SubSeq(s, i + 1, Len(s)))

\* sep.join(lines)
RECURSIVE join(_, _)
join(lines, sep) ==
    IF lines = <<>> THEN <<>>
    ELSE IF Len(lines) = 1 THEN lines[1]
    ELSE lines[1] \o sep \o join(Tail(lines), sep)

----------------------------------------------------------------------------
(* The environment marker (.envrc).                                        *)

ENVRC_MARKER == <<"export", " ", "RPLC_SWAPPED", "=", "1">>

\* an update that appends the marker line without removing the one there is
_update_envrc_append(env, set_var, manage_env) ==
    IF ~manage_env THEN env
    ELSE IF ~env.ex THEN env
    ELSE LET lines == splitlines(read_text(env.text))
             new   == IF set_var THEN Append(lines, ENVRC_MARKER) ELSE lines
         IN  TextFile(join(new, <<NL>>) \o <<NL>>)

\* an update that writes the .envrc whether or not the marker is managed and
\* whether or not the file exists
_update_envrc_unguarded(env, set_var, manage_env) ==
    LET lines == IF env.ex THEN splitlines(read_text(env.text)) ELSE <<>>
        kept  == SelectSeq(lines, LAMBDA line : ~StartsWith(line, ENVRC_MARKER))
        new   == IF set_var THEN Append(kept, ENVRC_MARKER) ELSE kept
    IN  TextFile(join(new, <<NL>>) \o <<NL>>)

\* MirrorManager._update_envrc on the project's .envrc
_update_envrc(env, set_var, manage_env) ==
    IF ~manage_env THEN env
    ELSE IF ~env.ex THEN env
    ELSE LET lines == splitlines(read_text(env.text))
             kept  == SelectSeq(lines, LAMBDA line : ~StartsWith(line, ENVRC_MARKER))
             new   == IF set_var THEN Append(kept, ENVRC_MARKER) ELSE kept
         IN  TextFile(join(new, <<NL>>) \o <<NL>>)

----------------------------------------------------------------------------
(* ConfigParser.  Character classes of the atoms the regular expressions  *)
(* of the parser look at.                                                  *)

\* the atom standing for a code fence, three backticks
FENCE == "FENCE"

Whitespace == {" ", NL, CR}

Specials == {"#", " ", ".", "/", "*", "=", "$", "~", "-", NL, FENCE}

\* atoms that are one uppercase letter
UpperAtoms == {"D", "S"}

\* atoms that are a run of lowercase letters (maybe with - or _ inside)
LowerAtoms == {"d", "evelopment", "ome", "text", "rplc-config", "other", "env",
               "local", "gitignore", "yml", "a", "b", "rplc", "original",
               "rplc_active", "rplc-disabled", "h1", "h2", "note", "sub"}

IsWordChar(a) == a \in UpperAtoms \cup LowerAtoms

\* str.strip()
RECURSIVE lstrip(_)
lstrip(s) == IF s # <<>> /\ Head(s) \in Whitespace THEN lstrip(Tail(s)) ELSE s

RECURSIVE rstrip(_, _)
rstrip(s, A) ==
    IF s # <<>> /\ s[Len(s)] \in A THEN rstrip(SubSeq(s, 1, Len(s) - 1), A) ELSE s

strip(s) == rstrip(lstrip(s), Whitespace)

\* how many atoms equal to a the string starts with
RECURSIVE Leading(_, _)
Leading(s, A) == IF s # <<>> /\ Head(s) \in A THEN 1 + Leading(Tail(s), A) ELSE 0

\* what follows a heading prefix, # (exactly one, when one is TRUE) or #{1,},
\* then \s+ : <<rest>>, or <<>> for no match
HeadingRest(s, one) ==
    LET h == Leading(s, {"#"})
        r == SubSeq(s, h + 1, Len(s))
        w == Leading(r, Whitespace)
    IN  IF h >= 1 /\ (one => h = 1) /\ w >= 1
        THEN <<SubSeq(r, w + 1, Len(r))>> ELSE <<>>

IsDevelopment(r) ==
    Len(r) >= 2 /\ r[1] \in {"D", "d"} /\ r[2] = "evelopment"

\* re.match(r'^#\s+[Dd]evelopment', s)
re_h1_development(s) ==
    HeadingRest(s, TRUE) # <<>> /\ IsDevelopment(HeadingRest(s, TRUE)[1])

\* re.match(r'^#{2,}', s)
re_h2plus(s) == Leading(s, {"#"}) >= 2

\* re.match(r'^#{1,}\s+[Dd]evelopment', s)
re_hn_development(s) ==
    HeadingRest(s, FALSE) # <<>> /\ IsDevelopment(HeadingRest(s, FALSE)[1])

\* re.match(r'^#\s+\w', s)
re_h1_word(s) ==
    /\ HeadingRest(s, TRUE) # <<>>
    /\ HeadingRest(s, TRUE)[1] # <<>>
    /\ IsWordChar(HeadingRest(s, TRUE)[1][1])

\* re.match(r'^#{1,}\s+\w', s)
re_hn_word(s) ==
    /\ HeadingRest(s, FALSE) # <<>>
    /\ HeadingRest(s, FALSE)[1] # <<>>
    /\ IsWordChar(HeadingRest(s, FALSE)[1][1])

\* re.match(r'^[A-Z][a-z].*\s', s): a description sentence
re_prose(s) ==
    /\ Len(s) >= 3
    /\ s[1] \in UpperAtoms
    /\ s[2] \in LowerAtoms
    /\ \E i \in 3..Len(s) : s[i] \in Whitespace

RPLC_CONFIG_HEADING == <<"#", "#", " ", "rplc-config">>

\* ConfigParser._remove_code_blocks: every fence, up to and including the
\* next fence, is removed (the text holds no other backtick)
RECURSIVE _remove_code_blocks(_)
_remove_code_blocks(content) ==
    LET i == FirstIn(content, {FENCE}, 1)
    IN  IF i = 0 THEN content
        ELSE LET j == FirstIn(content, {FENCE}, i + 1)
             IN  IF j = 0 THEN content
                 ELSE SubSeq(content, 1, i - 1)
                          \o _remove_code_blocks(SubSeq(content, j + 1, Len(content)))

\* the process environment and home directory the paths are expanded in
Environ == [x \in {"SUB"} |-> <<"sub">>]

HomeDir == <<"/", "home">>

\* os.path.expandvars: $NAME is replaced when NAME is defined
RECURSIVE expandvars(_)
expandvars(s) ==
    IF s = <<>> THEN <<>>
    ELSE IF Head(s) = "$" /\ Len(s) >= 2 /\ s[2] \in DOMAIN Environ
         THEN Environ[s[2]] \o expandvars(SubSeq(s, 3, Len(s)))
         ELSE <<Head(s)>> \o expandvars(Tail(s))

\* os.path.expanduser: a leading ~ is the home directory
expanduser(s) ==
    IF s # <<>> /\ Head(s) = "~" /\ (Len(s) = 1 \/ s[2] = "/")
    THEN HomeDir \o Tail(s) ELSE s

\* ConfigParser._resolve_env_vars
_resolve_env_vars(path_str) == expandvars(expanduser(path_str))

\* one line of parse_config's loop; st = [state, configs, found]
ParseLine(st, line) ==
    LET stripped == strip(line)
    IN  CASE st.state = "searching_development" ->
               IF re_h1_development(stripped) /\ ~re_h2plus(stripped)
               THEN [st EXCEPT !.state = "in_development"] ELSE st
          [] st.state = "in_development" ->
               IF stripped = RPLC_CONFIG_HEADING
               THEN [st EXCEPT !.state = "in_rplc_config", !.found = TRUE]
               ELSE IF re_hn_development(stripped) THEN [st EXCEPT !.state = "done"]
               ELSE IF st.found /\ re_h1_word(stripped) THEN [st EXCEPT !.state = "done"]
               ELSE st
          [] st.state = "in_rplc_config" ->
               IF re_hn_word(stripped)
               THEN IF stripped = RPLC_CONFIG_HEADING THEN st
                    ELSE IF re_hn_development(stripped) THEN [st EXCEPT !.state = "done"]
                    ELSE IF re_h1_word(stripped) THEN [st EXCEPT !.state = "done"]
                    ELSE [st EXCEPT !.state = "in_development"]
               ELSE IF stripped # <<>> /\ Head(stripped) # "#" /\ ~re_prose(stripped)
                    THEN [st EXCEPT !.configs = Append(@,
                            MirrorConfig(_resolve_env_vars(rstrip(stripped, {"/"})),
                                         stripped[Len(stripped)] = "/"))]
                    ELSE st
          [] OTHER -> st

RECURSIVE ParseLines(_, _)
ParseLines(st, lines) ==
    IF lines = <<>> \/ st.state = "done" THEN st
    ELSE ParseLines(ParseLine(st, Head(lines)), Tail(lines))

\* ConfigParser.parse_config
parse_config(config_file) ==
    IF ~config_file.ex THEN <<>>
    ELSE ParseLines([state |-> "searching_development", configs |-> <<>>, found |-> FALSE],
                    split_nl(_remove_code_blocks(read_text(config_file.text)))).configs

\* the absolute path of the project directory, and of a name below it
ProjDir == <<"/", "proj">>

AbsPath(n) == ProjDir \o <<"/">> \o n

is_absolute(path) == path # <<>> /\ Head(path) = "/"

\* one line (with its line ending) of remove_config_entry's loop;
\* st = [state, new_lines, modified]
RemoveLine(st, line, path_to_remove) ==
    LET stripped == strip(line)
        rel      == SubSeq(path_to_remove, Len(ProjDir) + 2, Len(path_to_remove))
        keep(s)  == [s EXCEPT !.new_lines = Append(@, line)]
    IN  CASE st.state = "searching_development" ->
               IF re_h1_development(stripped) /\ ~re_h2plus(stripped)
               THEN keep([st EXCEPT !.state = "in_development"]) ELSE keep(st)
          [] st.state = "in_development" ->
               IF stripped = RPLC_CONFIG_HEADING
               THEN keep([st EXCEPT !.state = "in_rplc_config"])
               ELSE IF re_hn_development(stripped) THEN keep([st EXCEPT !.state = "done"])
               ELSE IF re_h1_word(stripped) THEN keep([st EXCEPT !.state = "done"])
               ELSE keep(st)
          [] st.state = "in_rplc_config" ->
               IF re_hn_word(stripped)
               THEN IF stripped = RPLC_CONFIG_HEADING THEN keep(st)
                    ELSE IF re_hn_development(stripped) THEN keep([st EXCEPT !.state = "done"])
                    ELSE IF re_h1_word(stripped) THEN keep([st EXCEPT !.state = "done"])
                    ELSE keep([st EXCEPT !.state = "in_development"])
               ELSE IF stripped # <<>> /\ Head(stripped) # "#" /\ ~re_prose(stripped)
                    THEN LET config_path == _resolve_env_vars(rstrip(stripped, {"/"}))
                             matches == IF is_absolute(config_path)
                                        THEN config_path = path_to_remove
                                        ELSE config_path = rel
                         IN  IF matches THEN [st EXCEPT !.modified = TRUE] ELSE keep(st)
                    ELSE keep(st)
          [] OTHER -> keep(st)

RECURSIVE RemoveLines(_, _, _)
RemoveLines(st, lines, path_to_remove) ==
    IF lines = <<>> THEN st
    ELSE RemoveLines(RemoveLine(st, Head(lines), path_to_remove), Tail(lines), path_to_remove)

\* ConfigParser.remove_config_entry: [modified, file], file the config file
\* after the call
remove_config_entry(config_file, path_to_remove) ==
    IF ~config_file.ex THEN [modified |-> FALSE, file |-> config_file]
    ELSE LET r == RemoveLines([state |-> "searching_development", new_lines |-> <<>>,
                               modified |-> FALSE],
                              splitlines_keepends(read_text(config_file.text)), path_to_remove)
         IN  [modified |-> r.modified,
              file |-> IF r.modified THEN TextFile(join(r.new_lines, <<>>)) ELSE config_file]

----------------------------------------------------------------------------
(* MirrorManager: construction and selection.                              *)

\* MirrorManager.__init__: the parsed entries with their paths resolved
\* against proj_dir and mirror_dir
RECURSIVE BindConfigs(_)
BindConfigs(configs) ==
    IF configs = <<>> THEN <<>>
    ELSE LET c == Head(configs)
             rel == IF StartsWith(c.source_path, ProjDir \o <<"/">>)
                    THEN SubSeq(c.source_path, Len(ProjDir) + 2, Len(c.source_path))
                    ELSE c.source_path
         IN  <<MirrorConfig(rel, c.is_directory)>> \o BindConfigs(Tail(configs))

ManagerConfigs(config_file) == BindConfigs(parse_config(config_file))

InSeq(x, q) == \E i \in 1..Len(q) : q[i] = x

\* the configs of the explicit files, in the order of the files
RECURSIVE ByFiles(_, _)
ByFiles(configs, files) ==
    IF files = <<>> THEN <<>>
    ELSE SelectSeq(configs, LAMBDA c : c.source_path = Head(files))
            \o ByFiles(configs, Tail(files))

\* the configs matching the pattern and not yet selected, appended
RECURSIVE ByPattern(_, _, _)
ByPattern(filtered, configs, pattern) ==
    IF configs = <<>> THEN filtered
    ELSE LET c == Head(configs)
         IN  ByPattern(IF fnmatch(rel_path(c), pattern) /\ ~InSeq(c, filtered)
                       THEN Append(filtered, c) ELSE filtered,
                       Tail(configs), pattern)

\* a _filter_configs that selects, when files and a pattern are given, only
\* the explicit files that match the pattern
_filter_configs_intersection(configs, files, pattern, exclude) ==
    LET positive ==
          IF files = <<>> /\ pattern = <<>> THEN configs
          ELSE IF files = <<>> THEN ByPattern(<<>>, configs, pattern)
          ELSE IF pattern = <<>> THEN ByFiles(configs, files)
          ELSE SelectSeq(ByFiles(configs, files), LAMBDA c : fnmatch(rel_path(c), pattern))
    IN  SelectSeq(positive,
                  LAMBDA c : ~\E i \in 1..Len(exclude) : fnmatch(rel_path(c), exclude[i]))

\* MirrorManager._filter_configs; files and exclude are sequences, <<>> for
\* None, and pattern is <<>> for None
_filter_configs(configs, files, pattern, exclude) ==
    IF files = <<>> /\ pattern = <<>> /\ exclude = <<>> THEN configs
    ELSE LET positive ==
               IF files = <<>> /\ pattern = <<>> THEN configs
               ELSE LET f == ByFiles(configs, files)
                    IN  IF pattern # <<>> THEN ByPattern(f, configs, pattern) ELSE f
             excluded(c) == \E i \in 1..Len(exclude) : fnmatch(rel_path(c), exclude[i])
         IN  IF exclude # <<>>
             THEN SelectSeq(positive, LAMBDA c : ~excluded(c))
             ELSE positive

\* the warnings _filter_configs prints: explicit files with no config
RECURSIVE FilterWarnings(_, _, _)
FilterWarnings(W, configs, files) ==
    IF files = <<>> THEN W
    ELSE FilterWarnings(
            IF \E i \in 1..Len(configs) : configs[i].source_path = Head(files)
            THEN W ELSE Say(W, "no_configuration_found", Head(files), <<>>),
            configs, Tail(files))

----------------------------------------------------------------------------
(* MirrorManager.swap_in.                                                  *)

\* a swap_in that writes no sentinel
SwapInSentinel_skipped(W, config, h, physical_path) == W

\* a sentinel that is created only when the entry has none at that moment
\* (a check made again at the creation, where the code checks once)
SwapInSentinel_exclusive(W, config, h, physical_path) ==
    IF \E found \in _find_any_sentinel(W.m, config) : found.found
    THEN W
    ELSE _copy_path(W, InMirror(physical_path), InMirror(_get_sentinel_path(config, h)))

\* a sentinel that is a flag: an empty file, whatever the mirror content is
SwapInSentinel_flag(W, config, h, physical_path) ==
    [W EXCEPT !.m = Put(@, _get_sentinel_path(config, h), File(""))]

\* step 3 of an entry: the mirror content is copied to the sentinel
SwapInSentinel(W, config, h, physical_path) ==
    _copy_path(W, InMirror(physical_path), InMirror(_get_sentinel_path(config, h)))

\* a swap_in that keeps no backup of the original
SwapInBackup_skipped(W, config) == W

\* the original, when there is one, is moved to the backup
SwapInBackup(W, config) ==
    IF exists(W, InProj(config.source_path))
    THEN _move_path(W, InProj(config.source_path), InMirror(_get_backup_path(config)))
    ELSE W

\* the mirror content is moved to the source path
SwapInMove(W, config, physical_path) ==
    _move_path(W, InMirror(physical_path), InProj(config.source_path))

\* the .gitignore files of a directory entry are enabled again
SwapInEnable(W, config) ==
    IF config.is_directory THEN _enable_gitignore_files(W, InProj(config.source_path)) ELSE W

\* a loop body that looks at the sentinel of the local host only: an entry
\* held by another host is swapped in like an entry nobody holds
SwapInEntrySteps_local(W, config, h, found, steps) ==
    IF found.found /\ found.host = get_hostname(h)
    THEN Say(W, "already_swapped_in", rel_path(config), <<>>)
    ELSE LET physical == _get_mirror_physical_path(W.m, config)
         IN  IF physical = <<>>
             THEN Say(W, "mirror_path_does_not_exist", config.mirror_path, <<>>)
             ELSE LET W1 == SwapInSentinel(W, config, h, physical[1])
                      W2 == SwapInBackup(W1, config)
                      W3 == SwapInMove(W2, config, physical[1])
                      W4 == SwapInEnable(W3, config)
                  IN  CASE steps = 1 -> W1
                        [] steps = 2 -> W2
                        [] steps = 3 -> W3
                        [] OTHER -> Say(W4, "swapped_in", rel_path(config), <<>>)

\* the loop body of swap_in for one entry, stopped after steps of its four
\* filesystem steps (4: the whole body); found is what _find_any_sentinel
\* returned
SwapInEntrySteps(W, config, h, found, steps) ==
    IF found.found
    THEN IF found.host = get_hostname(h)
         THEN Say(W, "already_swapped_in", rel_path(config), <<>>)
         ELSE Say(W, "swapped_in_on", rel_path(config), found.host)
    ELSE LET physical == _get_mirror_physical_path(W.m, config)
         IN  IF physical = <<>>
             THEN Say(W, "mirror_path_does_not_exist", config.mirror_path, <<>>)
             ELSE LET W1 == SwapInSentinel(W, config, h, physical[1])
                      W2 == SwapInBackup(W1, config)
                      W3 == SwapInMove(W2, config, physical[1])
                      W4 == SwapInEnable(W3, config)
                  IN  CASE steps = 1 -> W1
                        [] steps = 2 -> W2
                        [] steps = 3 -> W3
                        [] OTHER -> Say(W4, "swapped_in", rel_path(config), <<>>)

SwapInEntry(W, config, h, found) == SwapInEntrySteps(W, config, h, found, 4)

\* a swap_in loop that stops at the first entry it skips (break where the
\* code has continue)
RECURSIVE SwapInLoop_break(_, _, _)
SwapInLoop_break(W, configs, h) ==
    IF configs = <<>> THEN {W}
    ELSE UNION {IF found.found \/ _get_mirror_physical_path(W.m, Head(configs)) = <<>>
                THEN {SwapInEntry(W, Head(configs), h, found)}
                ELSE SwapInLoop_break(SwapInEntry(W, Head(configs), h, found),
                                      Tail(configs), h) :
                    found \in _find_any_sentinel(W.m, Head(configs))}

\* the loop of swap_in over the selected entries: the worlds it can end in
RECURSIVE SwapInLoop(_, _, _)
SwapInLoop(W, configs, h) ==
    IF configs = <<>> THEN {W}
    ELSE UNION {SwapInLoop(SwapInEntry(W, Head(configs), h, found), Tail(configs), h) :
                    found \in _find_any_sentinel(W.m, Head(configs))}

\* the messages of the pre-flight failure, one per bare .gitignore
BareGitignoreError(W, bare) ==
    [W EXCEPT !.out = Append(@, [msg |-> "bare_gitignore_in_mirror", path |-> <<>>,
                                 host |-> <<>>, items |-> bare]),
              !.exit = 1]

\* MirrorManager.swap_in on the selected configs: the worlds it can end in
swap_in(W, configs, h, manage_env) ==
    LET bare_gitignores == _find_bare_gitignore_in_mirror(W.m, configs)
    IN  IF bare_gitignores # {}
        THEN {BareGitignoreError(W, bare_gitignores)}
        ELSE LET W1 == IF configs # <<>>
                       THEN [W EXCEPT !.env = _update_envrc(W.env, TRUE, manage_env)]
                       ELSE W
             IN  SwapInLoop(W1, configs, h)

\* swap_in killed in the body of entry number at, after steps of that
\* entry's filesystem steps: the entries before it are done, the .envrc is
\* written (it is written before the loop), the later entries are untouched
swap_in_interrupted(W, configs, h, manage_env, at, steps) ==
    LET W1 == [W EXCEPT !.env = _update_envrc(W.env, TRUE, manage_env)]
    IN  UNION {{SwapInEntrySteps(Wd, configs[at], h, found, steps) :
                    found \in _find_any_sentinel(Wd.m, configs[at])} :
               Wd \in SwapInLoop(W1, SubSeq(configs, 1, at - 1), h)}

----------------------------------------------------------------------------
(* MirrorManager.swap_out.                                                 *)

\* a store that leaves the .gitignore files of the stored content as they are
SwapOutStore_bare(W, config) ==
    IF exists(W, InProj(config.source_path))
    THEN _move_path(W, InProj(config.source_path), InMirror(config.mirror_path))
    ELSE W

\* the modified content is stored in the mirror, .gitignore files disabled
SwapOutStore(W, config) ==
    IF exists(W, InProj(config.source_path))
    THEN _disable_gitignore_files(
             _move_path(W, InProj(config.source_path), InMirror(config.mirror_path)),
             InMirror(config.mirror_path))
    ELSE W

\* the backup, when there is one, is moved back to the source path
SwapOutRestore(W, config) ==
    IF exists(W, InMirror(_get_backup_path(config)))
    THEN _move_path(W, InMirror(_get_backup_path(config)), InProj(config.source_path))
    ELSE Say(W, "no_backup_found", rel_path(config), <<>>)

\* a swap_out that leaves the sentinel it found where it is
SwapOutRemoveSentinel_kept(W, found) == W

\* the sentinel found is removed (rmtree or unlink)
SwapOutRemoveSentinel(W, found) == [W EXCEPT !.m = Del(@, found.path)]

\* the loop body of swap_out for one entry, stopped after steps of its
\* filesystem steps (3: the whole body): store, restore and sentinel removal
\* when a sentinel was found, move and disable when the mirror is initialized
SwapOutEntrySteps(W, config, found, steps) ==
    IF ~found.found
    THEN IF _get_mirror_physical_path(W.m, config) = <<>>
            /\ exists(W, InProj(config.source_path))
         THEN LET W1 == _move_path(W, InProj(config.source_path), InMirror(config.mirror_path))
              IN  IF steps = 1
                  THEN W1
                  ELSE Say(_disable_gitignore_files(W1, InMirror(config.mirror_path)),
                           "initialized_mirror", config.mirror_path, <<>>)
         ELSE Say(W, "already_swapped_out", rel_path(config), <<>>)
    ELSE LET W1 == SwapOutStore(W, config)
             W2 == SwapOutRestore(W1, config)
             W3 == SwapOutRemoveSentinel(W2, found)
         IN  CASE steps = 1 -> W1
               [] steps = 2 -> W2
               [] OTHER -> Say(W3, "swapped_out", rel_path(config), <<>>)

SwapOutEntry(W, config, found) == SwapOutEntrySteps(W, config, found, 3)

RECURSIVE SwapOutLoop(_, _)
SwapOutLoop(W, configs) ==
    IF configs = <<>> THEN {W}
    ELSE UNION {SwapOutLoop(SwapOutEntry(W, Head(configs), found), Tail(configs)) :
                    found \in _find_any_sentinel(W.m, Head(configs))}

\* a swap_out that clears the marker whatever the selection
swap_out_always_marker(W, configs, manage_env) ==
    SwapOutLoop([W EXCEPT !.env = _update_envrc(W.env, FALSE, manage_env)], configs)

\* MirrorManager.swap_out on the selected configs: the worlds it can end in
swap_out(W, configs, manage_env) ==
    LET W1 == IF configs # <<>>
              THEN [W EXCEPT !.env = _update_envrc(W.env, FALSE, manage_env)]
              ELSE W
    IN  SwapOutLoop(W1, configs)

\* swap_out killed in the body of entry number at, after steps of that
\* entry's filesystem steps
swap_out_interrupted(W, configs, manage_env, at, steps) ==
    LET W1 == [W EXCEPT !.env = _update_envrc(W.env, FALSE, manage_env)]
    IN  UNION {{SwapOutEntrySteps(Wd, configs[at], found, steps) :
                    found \in _find_any_sentinel(Wd.m, configs[at])} :
               Wd \in SwapOutLoop(W1, SubSeq(configs, 1, at - 1))}

----------------------------------------------------------------------------
(* MirrorManager.delete.                                                   *)

\* the selected entries that are swapped in, with the host found
RECURSIVE SwappedInFiles(_, _)
SwappedInFiles(m, configs) ==
    IF configs = <<>> THEN {<<>>}
    ELSE LET c == Head(configs)
         IN  {(IF found.found THEN <<[path |-> c.source_path, host |-> found.host]>>
               ELSE <<>>) \o rest :
                 found \in _find_any_sentinel(m, c), rest \in SwappedInFiles(m, Tail(configs))}

\* the mirror content and the backup of every selected entry are removed
RECURSIVE DeleteArtifacts(_, _)
DeleteArtifacts(W, configs) ==
    IF configs = <<>> THEN W
    ELSE LET c  == Head(configs)
             ph == _get_mirror_physical_path(W.m, c)
             W1 == IF ph # <<>>
                   THEN Say([W EXCEPT !.m = Del(@, ph[1])], "removed", ph[1], <<>>)
                   ELSE Say(W, "already_removed", c.mirror_path, <<>>)
             W2 == IF exists(W1, InMirror(_get_backup_path(c)))
                   THEN Say([W1 EXCEPT !.m = Del(@, _get_backup_path(c))],
                            "removed_backup", _get_backup_path(c), <<>>)
                   ELSE W1
         IN  DeleteArtifacts(W2, Tail(configs))

\* the config entries of the selected entries are removed from the document
RECURSIVE DeleteConfigEntries(_, _)
DeleteConfigEntries(W, configs) ==
    IF configs = <<>> THEN W
    ELSE LET r == remove_config_entry(W.doc, AbsPath(Head(configs).source_path))
         IN  DeleteConfigEntries(
                 IF r.modified
                 THEN Say([W EXCEPT !.doc = r.file], "removing_config_entry",
                          Head(configs).source_path, <<>>)
                 ELSE W,
                 Tail(configs))

\* a delete that skips the swapped-in entries one by one and removes the
\* others, where the code refuses the whole batch
delete_per_entry(W, configs) ==
    {LET free == SelectSeq(configs,
                           LAMBDA c : \A i \in 1..Len(swapped_in_files) :
                                         swapped_in_files[i].path # c.source_path)
     IN  [DeleteConfigEntries(DeleteArtifacts(W, free), free)
            EXCEPT !.exit = IF swapped_in_files # <<>> THEN 1 ELSE 0] :
        swapped_in_files \in SwappedInFiles(W.m, configs)}

\* a delete that takes the selected entries out of the project as well
delete_with_source(W, configs) ==
    IF configs = <<>> THEN {Say(W, "no_matching_files", <<>>, <<>>)}
    ELSE {IF swapped_in_files # <<>>
          THEN [W EXCEPT !.exit = 1]
          ELSE LET Wd == DeleteConfigEntries(DeleteArtifacts(W, configs), configs)
                   gone == {configs[i].source_path : i \in 1..Len(configs)}
               IN  [Wd EXCEPT !.p = [n \in (DOMAIN Wd.p) \ gone |-> Wd.p[n]]] :
            swapped_in_files \in SwappedInFiles(W.m, configs)}

\* MirrorManager.delete on the selected configs: the worlds it can end in
delete(W, configs) ==
    IF configs = <<>> THEN {Say(W, "no_matching_files", <<>>, <<>>)}
    ELSE {IF swapped_in_files # <<>>
          THEN [W EXCEPT !.out = Append(@, [msg |-> "cannot_delete_swapped_in",
                                            path |-> <<>>, host |-> <<>>,
                                            items |-> {swapped_in_files[i] :
                                                         i \in 1..Len(swapped_in_files)}]),
                         !.exit = 1]
          ELSE Say(DeleteConfigEntries(DeleteArtifacts(W, configs), configs),
                   "successfully_removed", <<>>, <<>>) :
            swapped_in_files \in SwappedInFiles(W.m, configs)}

----------------------------------------------------------------------------
(* The scenarios the model starts from: a config document, the project    *)
(* tree every host has checked out, and the mirror root the hosts share.  *)

Line(s) == s \o <<NL>>

DocOf(paths) ==
    TextFile(Line(<<"#", " ", "D", "evelopment">>) \o Line(RPLC_CONFIG_HEADING)
             \o join(paths, <<NL>>) \o <<NL>>)

N_env == <<".", "env">>

N_env_local == <<".", "env", ".", "local">>

N_b == <<"b">>

N_note == <<"note">>

N_sub == <<"sub">>

Tree1(n, node) == Put(EmptyTree, n, node)

Tree2(n1, node1, n2, node2) == Put(Tree1(n1, node1), n2, node2)

N_a_yml == <<"a", ".", "yml">>

H1 == <<"h1">>

H2 == <<"h2">>

\* one file entry, swapped by two hosts that share the mirror root
TwoHosts ==
    [hosts |-> {H1, H2},
     doc   |-> DocOf(<<N_a_yml>>),
     first |-> N_a_yml,
     proj  |-> Tree1(N_a_yml, File("s")),
     mir   |-> Tree1(N_a_yml, File("m"))]

\* two file entries, the name of one the name of the other plus a suffix
DotFiles ==
    [hosts |-> {H1},
     doc   |-> DocOf(<<N_env, N_env_local>>),
     first |-> N_env,
     proj  |-> Tree2(N_env, File("s"), N_env_local, File("s")),
     mir   |-> Tree2(N_env, File("m"), N_env_local, File("m"))]

\* a directory entry holding a nested .gitignore, and a standalone .gitignore
GitFiles ==
    [hosts |-> {H1},
     doc   |-> DocOf(<<N_b \o <<"/">>, GITIGNORE>>),
     first |-> N_b,
     proj  |-> Tree2(N_b, Dir(Tree2(N_note, File("s"),
                                   N_sub, Dir(Tree1(GITIGNORE, File("s"))))),
                    GITIGNORE, File("s")),
     mir   |-> Tree2(N_b, Dir(Tree2(N_note, File("m"),
                                   N_sub, Dir(Tree1(_get_neutralized_path(GITIGNORE), File("m"))))),
                    _get_neutralized_path(GITIGNORE), File("m"))]

Scenarios == {TwoHosts, DotFiles, GitFiles}

\* a tree restricted to some of its names
Restrict(t, S) == [n \in (DOMAIN t) \cap S |-> t[n]]

\* a .envrc with one line of its own
EnvrcText == TextFile(Line(<<"export", " ", "FOO", "=", "1">>))

\* whether the calls manage the marker (the --no-env option and its
\* RPLC_NO_ENV default), and the .envrc the projects start with
EnvSettings == {[manage_env |-> TRUE, envrc |-> EnvrcText]}

----------------------------------------------------------------------------
(* State.                                                                  *)
(*   mirror : the file tree of the mirror root, shared by the hosts        *)
(*   proj   : per host, the file tree of its project directory             *)
(*   envrc  : per host, the .envrc of its project directory                *)
(*   doc    : per host, the config document of its project                 *)
(*   manage : whether the calls manage the marker in .envrc                *)
(*   last   : the last call made: operation, host, selected configs, its   *)
(*            output and exit status, the files as they were before it     *)
(*            (pre), and the call made just before it with its output,     *)
(*            when that was a call of the same host on the same configs    *)
(*            (after)                                                      *)
(*   edits  : how many edits by hand and killed calls there have been; in   *)
(*            the interleaved runs, how many calls were begun              *)
(*   pc     : per host, where its call in flight stands (Idle between     *)
(*            calls)                                                       *)

NoCall == [op |-> "none", host |-> <<>>, configs |-> <<>>,
           out |-> <<>>, exit |-> 0, after |-> [op |-> "none", out |-> <<>>],
           pre |-> [m |-> EmptyTree, p |-> EmptyTree, env |-> NoFile, doc |-> NoFile]]

\* no call of the host is in flight
Idle == [at |-> "idle"]

World(h) == [m |-> mirror, p |-> proj[h], env |-> envrc[h], doc |-> doc[h],
             out |-> <<>>, exit |-> 0]

Init ==
    \E sc \in Scenarios : \E P \in SUBSET {sc.first}, M \in SUBSET {sc.first},
                              e \in EnvSettings :
        /\ mirror = Restrict(sc.mir, DOMAIN sc.mir \ M)
        /\ proj = [h \in sc.hosts |-> Restrict(sc.proj, DOMAIN sc.proj \ P)]
        /\ envrc = [h \in sc.hosts |-> e.envrc]
        /\ manage = e.manage_env
        /\ doc = [h \in sc.hosts |-> sc.doc]
        /\ last = NoCall
        /\ edits = 0
        /\ pc = [h \in DOMAIN proj |-> Idle]

N_other == <<"other">>

\* the arguments a call may be given: explicit files, a pattern, exclude
\* patterns; the files are the configured paths and one that is not
Selections(configs) ==
    {[files |-> <<>>, pattern |-> <<>>, exclude |-> <<>>],
     [files |-> <<N_other>>, pattern |-> <<>>, exclude |-> <<>>],
     [files |-> <<>>, pattern |-> <<"*">>, exclude |-> <<<<"*", "local">>, <<"*", "gitignore">>>>]}
    \cup {[files |-> <<configs[i].source_path>>, pattern |-> <<>>, exclude |-> <<>>] :
             i \in 1..Len(configs)}

\* the state after a call of host h that ended in world W
Commit(h, op, configs, W) ==
    /\ mirror' = W.m
    /\ proj' = [proj EXCEPT ![h] = W.p]
    /\ envrc' = [envrc EXCEPT ![h] = W.env]
    /\ doc' = [doc EXCEPT ![h] = W.doc]
    /\ last' = [op |-> op, host |-> h, configs |-> configs,
                out |-> W.out, exit |-> W.exit,
                after |-> IF last.host = h /\ last.configs = configs /\ last.op # "edit"
                          THEN [op |-> last.op, out |-> last.out]
                          ELSE [op |-> "other", out |-> <<>>],
                pre |-> [m |-> mirror, p |-> proj[h], env |-> envrc[h], doc |-> doc[h]]]
    /\ UNCHANGED <<manage, pc>>

\* the calls host h can make: the selected configs of each selection, with
\* the world the filter leaves (its warnings printed)
Calls(h) ==
    UNION {{[configs |-> _filter_configs(all, sel.files, sel.pattern, sel.exclude),
             W |-> FilterWarnings(World(h), all, sel.files)] : sel \in Selections(all)} :
           all \in {ManagerConfigs(doc[h])}}

\* rplc swapin on host h
SwapIn(h) ==
    \E call \in Calls(h) :
        \E W \in swap_in(call.W, call.configs, h, manage) :
            Commit(h, "swap_in", call.configs, W) /\ UNCHANGED edits

\* rplc swapout on host h
SwapOut(h) ==
    \E call \in Calls(h) :
        \E W \in swap_out(call.W, call.configs, manage) :
            Commit(h, "swap_out", call.configs, W) /\ UNCHANGED edits

\* rplc delete on host h
Delete(h) ==
    \E call \in Calls(h) :
        \E W \in delete(call.W, call.configs) :
            Commit(h, "delete", call.configs, W) /\ UNCHANGED edits

\* the user edits a managed path of the project by hand: new content, or
\* the path removed
EditSource(h) ==
    /\ edits < MaxEdits
    /\ \E all \in {ManagerConfigs(doc[h])} : \E i \in 1..Len(all) :
          LET c == all[i]
              n == c.source_path
          IN  \/ proj' = [proj EXCEPT ![h] =
                             Put(@, n, IF c.is_directory
                                       THEN Dir(Tree2(N_note, File("x"), GITIGNORE, File("x")))
                                       ELSE File("x"))]
              \/ /\ Exists(proj[h], n)
                 /\ proj' = [proj EXCEPT ![h] = Del(@, n)]
    /\ edits' = edits + 1
    /\ last' = [NoCall EXCEPT !.op = "edit", !.host = h]
    /\ UNCHANGED <<mirror, envrc, doc, manage, pc>>

\* the user puts a bare .gitignore into the mirror root by hand: into the
\* mirror content of a managed directory, or as a managed .gitignore itself
EditMirror(h) ==
    /\ edits < MaxEdits
    /\ \E all \in {ManagerConfigs(doc[h])} : \E i \in 1..Len(all) :
          LET c == all[i]
              n == c.mirror_path
          IN  \/ /\ is_dir(mirror, n)
                 /\ \E sub \in {x \in DOMAIN mirror[n].ch : mirror[n].ch[x].dir} :
                       mirror' = Put(mirror, n,
                                     Dir(Put(mirror[n].ch, sub,
                                             Dir(Put(mirror[n].ch[sub].ch, GITIGNORE, File("x"))))))
              \/ /\ _is_gitignore_file(n)
                 /\ mirror' = Put(mirror, n, File("x"))
    /\ edits' = edits + 1
    /\ last' = [NoCall EXCEPT !.op = "edit", !.host = h]
    /\ UNCHANGED <<proj, envrc, doc, manage, pc>>

\* the hosts of the scenario
Hosts == DOMAIN proj

DoSwapIn == \E h \in Hosts : SwapIn(h)
DoSwapOut == \E h \in Hosts : SwapOut(h)
DoDelete == \E h \in Hosts : Delete(h)
\* a swapin of host h is killed (the process dies, the machine goes down)
\* somewhere in its loop
InterruptSwapIn(h) ==
    /\ edits < MaxEdits
    /\ \E call \in Calls(h) :
          /\ _find_bare_gitignore_in_mirror(mirror, call.configs) = {}
          /\ \E at \in 1..Len(call.configs), steps \in 1..3 :
                \E W \in swap_in_interrupted(call.W, call.configs, h, manage, at, steps) :
                    /\ Commit(h, "swap_in_interrupted", call.configs, [W EXCEPT !.exit = 1])
                    /\ edits' = edits + 1

\* a swapout of host h is killed somewhere in its loop
InterruptSwapOut(h) ==
    /\ edits < MaxEdits
    /\ \E call \in Calls(h) :
          \E at \in 1..Len(call.configs), steps \in 1..2 :
              \E W \in swap_out_interrupted(call.W, call.configs, manage, at, steps) :
                  /\ Commit(h, "swap_out_interrupted", call.configs, [W EXCEPT !.exit = 1])
                  /\ edits' = edits + 1

DoEditSource == \E h \in Hosts : EditSource(h)
DoEditMirror == \E h \in Hosts : EditMirror(h)

Next == DoSwapIn \/ DoSwapOut \/ DoDelete \/ DoEditSource \/ DoEditMirror

Spec == Init /\ [][Next]_vars

\* the calls with interruptions: a call may be killed part-way, and the
\* calls after it are made by fresh processes that see only the files
DoInterruptSwapIn == \E h \in Hosts : InterruptSwapIn(h)
DoInterruptSwapOut == \E h \in Hosts : InterruptSwapOut(h)

NextInterrupted == DoSwapIn \/ DoSwapOut \/ DoInterruptSwapIn \/ DoInterruptSwapOut

SpecInterrupted == Init /\ [][NextInterrupted]_vars

\* the runs that are sequences of swapin and swapout calls only
NextSwaps == DoSwapIn \/ DoSwapOut

SpecSwaps == Init /\ [][NextSwaps]_vars

\* two entries, a file and a directory, swapped by two hosts that share the
\* mirror root
TwoHostsTwoEntries ==
    [hosts |-> {H1, H2},
     doc   |-> DocOf(<<N_a_yml, N_b \o <<"/">>>>),
     first |-> N_a_yml,
     proj  |-> Tree2(N_a_yml, File("s"), N_b, Dir(Tree1(N_note, File("s")))),
     mir   |-> Tree2(N_a_yml, File("m"), N_b, Dir(Tree1(N_note, File("m"))))]

InitShared ==
    \E sc \in Scenarios \cup {TwoHostsTwoEntries} :
        \E P \in SUBSET {sc.first}, M \in SUBSET {sc.first}, e \in EnvSettings :
            /\ mirror = Restrict(sc.mir, DOMAIN sc.mir \ M)
            /\ proj = [h \in sc.hosts |-> Restrict(sc.proj, DOMAIN sc.proj \ P)]
            /\ envrc = [h \in sc.hosts |-> e.envrc]
            /\ manage = e.manage_env
            /\ doc = [h \in sc.hosts |-> sc.doc]
            /\ last = NoCall
            /\ edits = 0
            /\ pc = [h \in DOMAIN proj |-> Idle]

\* the runs of swapin and swapout calls, on the scenarios and on a project
\* of two entries that two hosts swap
NextShared == DoSwapIn \/ DoSwapOut

SpecShared == InitShared /\ [][NextShared]_vars

\* the .envrc files a project may have when rplc is first used: with a final
\* newline, without one, and one where marker lines were left or written by
\* hand (twice the marker line, and a line that begins with it)
EnvrcTexts ==
    {EnvrcText,
     TextFile(<<"export", " ", "FOO", "=", "1">>),
     TextFile(Line(ENVRC_MARKER) \o Line(<<"export", " ", "FOO", "=", "1">>)
              \o Line(ENVRC_MARKER) \o ENVRC_MARKER \o <<"0">>)}

InitEnv ==
    \E sc \in Scenarios : \E P \in SUBSET {sc.first}, M \in SUBSET {sc.first},
                              e \in EnvrcTexts :
        /\ mirror = Restrict(sc.mir, DOMAIN sc.mir \ M)
        /\ proj = [h \in sc.hosts |-> Restrict(sc.proj, DOMAIN sc.proj \ P)]
        /\ envrc = [h \in sc.hosts |-> e]
        /\ manage = TRUE
        /\ doc = [h \in sc.hosts |-> sc.doc]
        /\ last = NoCall
        /\ edits = 0
        /\ pc = [h \in DOMAIN proj |-> Idle]

\* the runs of swapin and swapout calls on such projects, with a bare
\* .gitignore put into the mirror root by hand now and then
NextEnv == DoSwapIn \/ DoSwapOut \/ DoEditMirror

SpecEnv == InitEnv /\ [][NextEnv]_vars

\* the projects whose marker is not managed (--no-env), and those that have
\* no .envrc
NoEnvSettings ==
    {[manage_env |-> FALSE, envrc |-> EnvrcText],
     [manage_env |-> FALSE, envrc |-> NoFile],
     [manage_env |-> TRUE, envrc |-> NoFile]}

InitNoEnv ==
    \E sc \in Scenarios : \E P \in SUBSET {sc.first}, M \in SUBSET {sc.first},
                              e \in NoEnvSettings :
        /\ mirror = Restrict(sc.mir, DOMAIN sc.mir \ M)
        /\ proj = [h \in sc.hosts |-> Restrict(sc.proj, DOMAIN sc.proj \ P)]
        /\ envrc = [h \in sc.hosts |-> e.envrc]
        /\ manage = e.manage_env
        /\ doc = [h \in sc.hosts |-> sc.doc]
        /\ last = NoCall
        /\ edits = 0
        /\ pc = [h \in DOMAIN proj |-> Idle]

\* the runs of swapin and swapout calls on such projects
NextNoEnv == DoSwapIn \/ DoSwapOut

SpecNoEnv == InitNoEnv /\ [][NextNoEnv]_vars

----------------------------------------------------------------------------
(* MirrorManager._update_envrc on its own, applied to .envrc files of every *)
(* shape.                                                                  *)

\* how many lines a .envrc has at most
MaxEnvLines == 3

\* the lines of a .envrc: a line of the user, the marker line, a line of the
\* user that begins like the marker line, an empty line
EnvLines ==
    {<<"export", " ", "FOO", "=", "1">>, ENVRC_MARKER, ENVRC_MARKER \o <<"0">>, <<>>}

\* the .envrc files: no file, or lines ended by "\n" or by "\r\n", the last
\* line with or without its line ending
EnvFiles ==
    {NoFile}
    \cup UNION {UNION {{TextFile(join(lines, eol)), TextFile(join(lines, eol) \o eol)} :
                         lines \in [1..n -> EnvLines]} :
                 <<n, eol>> \in (0..MaxEnvLines) \X {<<NL>>, <<CR, NL>>}}

InitMarker ==
    \E e \in EnvFiles, manage_env \in BOOLEAN :
        /\ mirror = EmptyTree
        /\ proj = [h \in {H1} |-> EmptyTree]
        /\ envrc = [h \in {H1} |-> e]
        /\ manage = manage_env
        /\ doc = [h \in {H1} |-> NoFile]
        /\ last = NoCall
        /\ edits = 0
        /\ pc = [h \in DOMAIN proj |-> Idle]

\* self._update_envrc(set_var) on the project of host h
UpdateEnvrc(h) ==
    \E set_var \in BOOLEAN :
        /\ envrc' = [envrc EXCEPT ![h] = _update_envrc(@, set_var, manage)]
        /\ last' = [op |-> "_update_envrc", host |-> h, configs |-> <<>>,
                    out |-> <<>>, exit |-> 0, after |-> NoCall.after,
                    pre |-> [NoCall.pre EXCEPT !.env = envrc[h]],
                    set_var |-> set_var]
        /\ UNCHANGED <<mirror, proj, doc, manage, edits, pc>>

DoUpdateEnvrc == \E h \in Hosts : UpdateEnvrc(h)

NextMarker == DoUpdateEnvrc

SpecMarker == InitMarker /\ [][NextMarker]_vars

----------------------------------------------------------------------------
(* MirrorManager._filter_configs on its own, applied to the entries of the *)
(* scenarios with arguments of every shape.                                *)

\* how many explicit files, and how many exclude patterns, a call is given
\* at most
MaxArgs == 2

\* the glob patterns given as pattern and as exclude patterns
Patterns == {<<"*">>, <<"*", "local">>, <<".", "*">>, N_b}

\* the sequences of at most MaxArgs elements of S
SeqsUpTo(S) == UNION {[1..n -> S] : n \in 0..MaxArgs}

\* a manager is made on host h and _filter_configs(files, pattern, exclude)
\* is called on it: last holds the arguments, the configs returned and the
\* warnings printed
Filter(h) ==
    /\ last.op = "none"
    /\ \E all \in {ManagerConfigs(doc[h])} :
          \E files \in SeqsUpTo({all[i].source_path : i \in 1..Len(all)} \cup {N_other}),
             pattern \in {<<>>} \cup Patterns,
             exclude \in SeqsUpTo(Patterns) :
              /\ last' = [op |-> "_filter_configs", host |-> h,
                          configs |-> _filter_configs(all, files, pattern, exclude),
                          out |-> FilterWarnings(World(h), all, files).out,
                          exit |-> 0, after |-> NoCall.after, pre |-> NoCall.pre,
                          files |-> files, pattern |-> pattern, exclude |-> exclude]
              /\ UNCHANGED <<mirror, proj, envrc, doc, manage, edits, pc>>

DoFilter == \E h \in Hosts : Filter(h)

NextFilter == DoFilter

SpecFilter == Init /\ [][NextFilter]_vars

----------------------------------------------------------------------------
(* ConfigParser on its own: parse_config and remove_config_entry applied   *)
(* to config documents put together from a few kinds of lines.             *)

\* how many blocks a document has at most
MaxDocBlocks == 4

\* the blocks documents are made of: level-1 headings, level-2 headings, a
\* file entry, a directory entry, a description sentence, and two fenced code
\* blocks, one holding an entry line, one holding a level-1 heading
DocBlocks ==
    {<<"#", " ", "D", "evelopment">>,
     <<"#", " ", "other">>,
     <<"#", "#", " ", "other">>,
     RPLC_CONFIG_HEADING,
     N_a_yml,
     N_b \o <<"/">>,
     <<"S", "ome", " ", "text">>,
     <<FENCE, NL>> \o N_a_yml \o <<NL, FENCE>>,
     <<FENCE, NL, "#", " ", "other", NL, FENCE>>}

\* the texts of n blocks, each block ended by the line ending eol
RECURSIVE Docs(_, _)
Docs(n, eol) ==
    IF n = 0 THEN {<<>>}
    ELSE {b \o eol \o d : b \in DocBlocks, d \in Docs(n - 1, eol)}

\* documents written with "\n" line endings, and with "\r\n" line endings
Documents == UNION {Docs(n, <<NL>>) \cup Docs(n, <<CR, NL>>) : n \in 0..MaxDocBlocks}

\* a project whose config file has one of the documents, or does not exist
InitParser ==
    \E file \in {NoFile} \cup {TextFile(text) : text \in Documents} :
        /\ mirror = EmptyTree
        /\ proj = [h \in {H1} |-> EmptyTree]
        /\ envrc = [h \in {H1} |-> NoFile]
        /\ manage = TRUE
        /\ doc = [h \in {H1} |-> file]
        /\ last = NoCall
        /\ edits = 0
        /\ pc = [h \in DOMAIN proj |-> Idle]

\* the paths remove_config_entry is asked to remove (relative to proj_dir)
Targets == {N_a_yml, N_b, N_other}

\* ConfigParser.parse_config(config_file) is called: last.configs is what it
\* returned
Parse(h) ==
    /\ last' = [NoCall EXCEPT !.op = "parse_config", !.host = h,
                              !.configs = parse_config(doc[h]),
                              !.pre.doc = doc[h]]
    /\ UNCHANGED <<mirror, proj, envrc, doc, manage, edits, pc>>

\* ConfigParser.remove_config_entry(config_file, proj_dir / target, proj_dir)
\* is called: last.configs holds the target
RemoveEntry(h) ==
    \E target \in Targets :
        /\ doc' = [doc EXCEPT ![h] = remove_config_entry(@, AbsPath(target)).file]
        /\ last' = [NoCall EXCEPT !.op = "remove_config_entry", !.host = h,
                                  !.configs = <<MirrorConfig(target, FALSE)>>,
                                  !.pre.doc = doc[h]]
        /\ UNCHANGED <<mirror, proj, envrc, manage, edits, pc>>

DoParse == \E h \in Hosts : Parse(h)
DoRemoveEntry == \E h \in Hosts : RemoveEntry(h)

NextParser == DoParse \/ DoRemoveEntry

SpecParser == InitParser /\ [][NextParser]_vars

----------------------------------------------------------------------------
(* ConfigParser.parse_config applied to documents of several sections and  *)
(* headings of several forms.                                              *)

\* how many blocks such a document has at most
MaxHeadingBlocks == 4

\* the blocks: the level-1 Development heading, another level-1 heading, a
\* level-1 heading whose title is emphasized (# *other*), a level-2 heading,
\* a level-2 heading whose title is emphasized, a level-2 heading that starts
\* with development, the entries heading, a file entry, a directory entry
HeadingBlocks ==
    {<<"#", " ", "D", "evelopment">>,
     <<"#", " ", "other">>,
     <<"#", " ", "*", "other", "*">>,
     <<"#", "#", " ", "other">>,
     <<"#", "#", " ", "*", "other", "*">>,
     <<"#", "#", " ", "d", "evelopment">>,
     RPLC_CONFIG_HEADING,
     N_a_yml,
     N_b \o <<"/">>}

\* the texts of n such blocks, one block a line
RECURSIVE HeadingDocs(_)
HeadingDocs(n) ==
    IF n = 0 THEN {<<>>}
    ELSE {b \o <<NL>> \o d : b \in HeadingBlocks, d \in HeadingDocs(n - 1)}

InitHeadings ==
    \E file \in {TextFile(text) : text \in UNION {HeadingDocs(n) : n \in 0..MaxHeadingBlocks}} :
        /\ mirror = EmptyTree
        /\ proj = [h \in {H1} |-> EmptyTree]
        /\ envrc = [h \in {H1} |-> NoFile]
        /\ manage = TRUE
        /\ doc = [h \in {H1} |-> file]
        /\ last = NoCall
        /\ edits = 0
        /\ pc = [h \in DOMAIN proj |-> Idle]

NextHeadings == DoParse

SpecHeadings == InitHeadings /\ [][NextHeadings]_vars

-----------------------------------------------------------------------------
(* What the claims speak of.                                               *)

HostNames == {H1, H2}

\* the hosts whose sentinel (<entry>.<host>.rplc_active) for a config is in
\* the mirror tree m
SentinelHosts(m, config) ==
    {h \in HostNames : Exists(m, _get_sentinel_path(config, h))}

\* the configs the last call selected
LastConfigs == {last.configs[i] : i \in 1..Len(last.configs)}

\* the last call printed msg about path
Said(msg, path) ==
    \E i \in 1..Len(last.out) : last.out[i].msg = msg /\ last.out[i].path = path

\* the last call printed msg about path, naming host
SaidHost(msg, path, host) ==
    \E i \in 1..Len(last.out) :
        last.out[i].msg = msg /\ last.out[i].path = path /\ last.out[i].host = host

\* the last call left the mirror root, the project and the .envrc as they were
FilesUntouched ==
    /\ mirror = last.pre.m
    /\ proj[last.host] = last.pre.p
    /\ envrc[last.host] = last.pre.env

\* the mirror content of a config has a bare .gitignore: one anywhere below a
\* directory entry, or the entry itself
HasBareGitignore(m, config) ==
    LET n == config.mirror_path
    IN  IF config.is_directory
        THEN is_dir(m, n) /\ rglob(m[n].ch, GITIGNORE) # {}
        ELSE _is_gitignore_file(n) /\ Exists(m, n)

\* the call before the last one, a call of the same host on the same configs,
\* printed msg about path
SaidBefore(msg, path) ==
    \E i \in 1..Len(last.after.out) :
        last.after.out[i].msg = msg /\ last.after.out[i].path = path

\* the mirror content of a config in mirror tree m: <<node>>, or <<>>
MirrorContent(m, config) ==
    LET physical == _get_mirror_physical_path(m, config)
    IN  IF physical = <<>> THEN <<>> ELSE NodeAt(m, physical[1])

\* the files and directories below a tree, each with its path (the names
\* from the tree down) and its bytes
RECURSIVE Listing(_)
Listing(t) ==
    {[path |-> <<n>>, dir |-> t[n].dir, data |-> t[n].data] : n \in DOMAIN t}
    \cup UNION {{[e EXCEPT !.path = <<n>> \o @] : e \in Listing(t[n].ch)} :
                 n \in {x \in DOMAIN t : t[x].dir}}

\* a path with its last name changed from one name to another
Renamed(path, from, to) ==
    IF path[Len(path)] = from THEN SubSeq(path, 1, Len(path) - 1) \o <<to>> ELSE path

\* content <<b>> is content <<a>> with every entry named from, at any depth
\* below a directory, named to instead (a file has nothing below it)
SameButNamed(a, b, from, to) ==
    /\ Len(a) = 1 /\ Len(b) = 1
    /\ a[1].dir = b[1].dir /\ a[1].data = b[1].data
    /\ Listing(b[1].ch) = {[e EXCEPT !.path = Renamed(@, from, to)] : e \in Listing(a[1].ch)}

DISABLED == GITIGNORE \o GITIGNORE_DISABLED_SUFFIX

\* the files before the last call, as the world a call starts in
WorldBefore ==
    [m |-> last.pre.m, p |-> last.pre.p, env |-> last.pre.env, doc |-> last.pre.doc,
     out |-> <<>>, exit |-> 0]

-----------------------------------------------------------------------------
(* The claims.                                                             *)

\* C1 (round trip): for any managed entry, file or directory, with or without
\* source content, a swap_in that swaps it in followed by a swap_out of the
\* same entries on the same host, nothing changed in between, leaves the
\* source content and the mirror content as they were before the swap_in.
C1_RoundTrip ==
    [][\A c \in LastConfigs :
          (/\ last.op = "swap_in"
           /\ SentinelHosts(last.pre.m, c) = {}
           /\ Said("swapped_in", rel_path(c))
           /\ last'.op = "swap_out"
           /\ last'.host = last.host
           /\ last'.configs = last.configs)
          => /\ NodeAt(proj'[last.host], c.source_path) = NodeAt(last.pre.p, c.source_path)
             /\ MirrorContent(mirror', c) = MirrorContent(last.pre.m, c)]_vars

\* C2 (mutual exclusion): when a sentinel for an entry names another host than
\* the local one, a swap_in of that entry leaves the mirror root, the project
\* and the project's .envrc unchanged and reports a conflict naming that host.
C2_MutualExclusion ==
    \A c \in LastConfigs : \A h1 \in HostNames \ {last.host} :
        (/\ last.op = "swap_in"
         /\ last.configs = <<c>>
         /\ SentinelHosts(last.pre.m, c) = {h1})
        => /\ FilesUntouched
           /\ SaidHost("swapped_in_on", c.source_path, h1)

\* C2 without the .envrc: the refused swap_in leaves the mirror root and the
\* project unchanged and reports the conflict naming the other host.
C2_RefusedSwapInMovesNothing ==
    \A c \in LastConfigs : \A h1 \in HostNames \ {last.host} :
        (/\ last.op = "swap_in"
         /\ last.configs = <<c>>
         /\ SentinelHosts(last.pre.m, c) = {h1})
        => /\ mirror = last.pre.m
           /\ proj[last.host] = last.pre.p
           /\ SaidHost("swapped_in_on", c.source_path, h1)

\* C3 (delete atomicity): a delete whose selection has an entry with a
\* sentinel exits non-zero and changes nothing: no backup, mirror content or
\* configuration line is removed, for the other selected entries either.
C3_DeleteAtomicity ==
    (/\ last.op = "delete"
     /\ \E c \in LastConfigs : SentinelHosts(last.pre.m, c) # {})
    => /\ last.exit # 0
       /\ FilesUntouched
       /\ doc[last.host] = last.pre.doc

\* a delete of two entries, one swapped in and one swapped out with mirror
\* content, that was refused
C3_Witness ==
    /\ last.op = "delete"
    /\ last.exit # 0
    /\ \E c, d \in LastConfigs :
          /\ SentinelHosts(last.pre.m, c) # {}
          /\ SentinelHosts(last.pre.m, d) = {}
          /\ Exists(last.pre.m, d.mirror_path)
          /\ Exists(mirror, d.mirror_path)

C5_AtMostOneSentinel ==
    \A h \in Hosts : \A c \in {ManagerConfigs(doc[h])[i] : i \in 1..Len(ManagerConfigs(doc[h]))} :
        Cardinality(SentinelHosts(mirror, c)) <= 1

\* a second host has just tried to swap in an entry that another host holds
C5_Witness ==
    /\ last.op = "swap_in"
    /\ \E c \in LastConfigs :
          /\ SentinelHosts(last.pre.m, c) = HostNames \ {last.host}
          /\ SentinelHosts(mirror, c) = HostNames \ {last.host}
          /\ Exists(last.pre.p, c.source_path)

\* C6 (pre-flight gate): a swap_in whose selection has mirror content with a
\* bare .gitignore exits non-zero before it changes anything: no sentinel,
\* backup, move, rename or .envrc marker, for the other selected entries either.
C6_SwapInPreFlightGate ==
    (/\ last.op = "swap_in"
     /\ \E c \in LastConfigs : HasBareGitignore(last.pre.m, c))
    => /\ last.exit # 0
       /\ FilesUntouched

\* a swap_in of two entries that could both be swapped in, refused for the
\* bare .gitignore in the mirror content of one
C6_Witness ==
    /\ last.op = "swap_in"
    /\ last.exit # 0
    /\ \E c, d \in LastConfigs :
          /\ HasBareGitignore(last.pre.m, c)
          /\ ~HasBareGitignore(last.pre.m, d)
          /\ Exists(last.pre.m, d.mirror_path)
          /\ SentinelHosts(last.pre.m, d) = {}
          /\ ~(ENVRC_MARKER \in {splitlines(envrc[last.host].text)[i] :
                                   i \in 1..Len(splitlines(envrc[last.host].text))})

\* C7 (swap_in postcondition): for an entry without sentinel, with source
\* content S and mirror content M, a successful swap_in leaves the source
\* equal to M, a backup holding S, a sentinel for the local host holding a
\* copy of M, and no mirror content.
C7_SwapInPostcondition ==
    \A c \in LastConfigs :
        (/\ last.op = "swap_in"
         /\ SentinelHosts(last.pre.m, c) = {}
         /\ Exists(last.pre.p, c.source_path)
         /\ Said("swapped_in", rel_path(c)))
        => /\ NodeAt(proj[last.host], c.source_path) = MirrorContent(last.pre.m, c)
           /\ NodeAt(mirror, _get_backup_path(c)) = NodeAt(last.pre.p, c.source_path)
           /\ NodeAt(mirror, _get_sentinel_path(c, last.host)) = MirrorContent(last.pre.m, c)
           /\ MirrorContent(mirror, c) = <<>>

\* C7 as the code has it: the source is M with the neutralized .gitignore
\* files below a directory entry named .gitignore again; the backup holds S,
\* the sentinel of the local host holds a copy of M as it was, and no mirror
\* content remains.
C7_SwapInPostconditionEnabled ==
    \A c \in LastConfigs :
        (/\ last.op = "swap_in"
         /\ SentinelHosts(last.pre.m, c) = {}
         /\ Exists(last.pre.p, c.source_path)
         /\ Said("swapped_in", rel_path(c)))
        => /\ SameButNamed(MirrorContent(last.pre.m, c),
                           NodeAt(proj[last.host], c.source_path), DISABLED, GITIGNORE)
           /\ NodeAt(mirror, _get_backup_path(c)) = NodeAt(last.pre.p, c.source_path)
           /\ NodeAt(mirror, _get_sentinel_path(c, last.host)) = MirrorContent(last.pre.m, c)
           /\ MirrorContent(mirror, c) = <<>>

\* a directory entry with a neutralized .gitignore below it was swapped in
C7_Witness ==
    /\ last.op = "swap_in"
    /\ \E c \in LastConfigs :
          /\ SentinelHosts(last.pre.m, c) = {}
          /\ Exists(last.pre.p, c.source_path)
          /\ Said("swapped_in", rel_path(c))
          /\ c.is_directory
          /\ rglob(last.pre.m[c.mirror_path].ch, DISABLED) # {}
          /\ rglob(proj[last.host][c.source_path].ch, GITIGNORE) # {}

\* C8 (swap_out postcondition): for an entry swapped in on this host whose
\* source was then changed to X, swap_out leaves the mirror content equal to X
\* (its .gitignore files neutralized), the source as the backup held it, and
\* neither a sentinel nor a backup.
C8_SwapOutPostcondition ==
    \A c \in LastConfigs :
        (/\ last.op = "swap_out"
         /\ SentinelHosts(last.pre.m, c) = {last.host}
         /\ Exists(last.pre.p, c.source_path))
        => /\ SameButNamed(NodeAt(last.pre.p, c.source_path),
                           MirrorContent(mirror, c), GITIGNORE, DISABLED)
           /\ NodeAt(proj[last.host], c.source_path) = NodeAt(last.pre.m, _get_backup_path(c))
           /\ SentinelHosts(mirror, c) = {}
           /\ ~Exists(mirror, _get_backup_path(c))

\* C9 (swap_out idempotence): the second of two swap_out calls in a row on the
\* same entries moves nothing: mirror root and project stay as the first call
\* left them.
C9_SwapOutTwice ==
    (last.op = "swap_out" /\ last.after.op = "swap_out")
    => /\ mirror = last.pre.m
       /\ proj[last.host] = last.pre.p

\* C10 (safe re-drive): when a swap_in or swap_out was killed between two of
\* its filesystem steps, running the same call again to its end leaves source,
\* mirror content, backups and sentinels as an uninterrupted run of the call
\* would have left them.
C10_SafeRedrive ==
    [][/\ (/\ last.op = "swap_in_interrupted"
           /\ last'.op = "swap_in"
           /\ last'.host = last.host
           /\ last'.configs = last.configs)
          => \E W \in swap_in(WorldBefore, last.configs, last.host, manage) :
                 mirror' = W.m /\ proj'[last.host] = W.p
       /\ (/\ last.op = "swap_out_interrupted"
           /\ last'.op = "swap_out"
           /\ last'.host = last.host
           /\ last'.configs = last.configs)
          => \E W \in swap_out(WorldBefore, last.configs, manage) :
                 mirror' = W.m /\ proj'[last.host] = W.p]_vars

\* the states a swap_in of host h on configs passes through inside the body
\* of an entry: the entry, the world when its body began, the world now
SwapInIntermediate(W, configs, h, manage_env) ==
    LET W1 == [W EXCEPT !.env = _update_envrc(W.env, TRUE, manage_env)]
    IN  UNION {UNION {{[config |-> configs[at], before |-> Wd,
                        now |-> SwapInEntrySteps(Wd, configs[at], h, found, steps)] :
                          found \in _find_any_sentinel(Wd.m, configs[at])} :
                      Wd \in SwapInLoop(W1, SubSeq(configs, 1, at - 1), h)} :
               <<at, steps>> \in (1..Len(configs)) \X (1..3)}

\* the same for a swap_out
SwapOutIntermediate(W, configs, manage_env) ==
    LET W1 == [W EXCEPT !.env = _update_envrc(W.env, FALSE, manage_env)]
    IN  UNION {UNION {{[config |-> configs[at], before |-> Wd,
                        now |-> SwapOutEntrySteps(Wd, configs[at], found, steps)] :
                          found \in _find_any_sentinel(Wd.m, configs[at])} :
                      Wd \in SwapOutLoop(W1, SubSeq(configs, 1, at - 1))} :
               <<at, steps>> \in (1..Len(configs)) \X (1..2)}

\* the intermediate states of the swap_in and swap_out calls that can be
\* made in the current state
Intermediate ==
    UNION {UNION {(IF _find_bare_gitignore_in_mirror(mirror, call.configs) = {}
                   THEN SwapInIntermediate(call.W, call.configs, h, manage)
                   ELSE {})
                  \cup SwapOutIntermediate(call.W, call.configs, manage) :
                      call \in Calls(h)} :
           h \in Hosts}

\* the source content of a config in project tree p: <<node>>, or <<>>
SourceContent(p, config) ==
    IF Exists(p, config.source_path) THEN NodeAt(p, config.source_path) ELSE <<>>

\* between the beginning of the entry's body and now, the entry's source or
\* mirror content has been moved
ContentMoved(s) ==
    \/ SourceContent(s.now.p, s.config) # SourceContent(s.before.p, s.config)
    \/ MirrorContent(s.now.m, s.config) # MirrorContent(s.before.m, s.config)

\* C11 (diagnosable trace): in every intermediate state of a swap_in or
\* swap_out, inside the body of an entry whose source or mirror content has
\* already been moved, a sentinel or a backup of that entry exists.
C11_DiagnosableTrace ==
    \A s \in Intermediate :
        ContentMoved(s)
        => \/ SentinelHosts(s.now.m, s.config) # {}
           \/ Exists(s.now.m, _get_backup_path(s.config))

\* the marker lines of a .envrc: how many of its lines begin with the marker
\* assignment (what _update_envrc takes for an existing marker line)
MarkerLines(env) ==
    IF env.ex
    THEN Len(SelectSeq(splitlines(env.text), LAMBDA line : StartsWith(line, ENVRC_MARKER)))
    ELSE 0

\* the entries host h manages
Managed(h) == LET all == ManagerConfigs(doc[h]) IN {all[i] : i \in 1..Len(all)}

\* C12 (marker reflects aggregate swap state): with marker management enabled
\* and the .envrc present, after any sequence of swap_in and swap_out calls
\* the marker line is in the .envrc of the calling project exactly when at
\* least one managed entry has a sentinel.
C12_MarkerReflectsSwapState ==
    (last.op \in {"swap_in", "swap_out"} /\ manage /\ envrc[last.host].ex)
    => (MarkerLines(envrc[last.host]) > 0
        <=> \E config \in Managed(last.host) : SentinelHosts(mirror, config) # {})

\* the last call was a swap_in killed while transitions of it were still to
\* come: no complete run of it ends with the mirror root and the project as
\* they are now
SwapInKilledBeforeItsEnd ==
    /\ last.op = "swap_in_interrupted"
    /\ \A W \in swap_in(WorldBefore, last.configs, last.host, manage) :
           W.m # mirror \/ W.p # proj[last.host]

\* C13 (marker set last): in a swap_in with a non-empty selection the marker
\* is written after all selected entries have been processed, so that no
\* sentinel, backup, source or mirror transition of the call follows the
\* write: while transitions of the call are still to come, the .envrc is as
\* it was before the call.
C13_MarkerSetAfterEntries ==
    SwapInKilledBeforeItsEnd => envrc[last.host] = last.pre.env

\* C14 (marker after a call): with marker management enabled and the .envrc
\* present, a swap_in with a non-empty selection that passes the pre-flight
\* gate returns with exactly one marker line in the .envrc, a swap_out with a
\* non-empty selection returns with none, whether or not entries were
\* skipped; a call whose selection is empty leaves the .envrc unwritten.
C14_MarkerAfterCall ==
    (manage /\ last.op \in {"swap_in", "swap_out"} /\ last.pre.env.ex)
    => /\ (/\ last.op = "swap_in"
           /\ last.configs # <<>>
           /\ _find_bare_gitignore_in_mirror(last.pre.m, last.configs) = {})
          => MarkerLines(envrc[last.host]) = 1
       /\ (last.op = "swap_out" /\ last.configs # <<>>)
          => MarkerLines(envrc[last.host]) = 0
       /\ last.configs = <<>> => envrc[last.host] = last.pre.env

\* a swap_in that skipped an entry whose mirror content is missing, on a
\* project whose .envrc had several marker lines
C14_Witness ==
    /\ last.op = "swap_in"
    /\ \E config \in LastConfigs : Said("mirror_path_does_not_exist", config.mirror_path)
    /\ \E config \in LastConfigs : Said("swapped_in", rel_path(config))
    /\ MarkerLines(last.pre.env) > 1
    /\ MarkerLines(envrc[last.host]) = 1

-----------------------------------------------------------------------------
(* What the claims about the config parser speak of.                       *)

\* the lines of a config document as the parser reads them: fenced code
\* blocks taken out, split at the newlines, stripped
RECURSIVE StripAll(_)
StripAll(lines) ==
    IF lines = <<>> THEN <<>> ELSE <<strip(Head(lines))>> \o StripAll(Tail(lines))

DocLines(file) == StripAll(split_nl(_remove_code_blocks(read_text(file.text))))

\* line j of L lies inside the level-1 Development section: the first level-1
\* Development heading comes before it and no level-1 heading lies between
InDevelopmentSection(L, j) ==
    \E k \in 1..(j - 1) :
        /\ re_h1_development(L[k])
        /\ \A i \in 1..(k - 1) : ~re_h1_development(L[i])
        /\ \A i \in (k + 1)..(j - 1) : ~re_h1_word(L[i])

\* the lines below heading j of L up to the next heading
BelowHeading(L, j) ==
    {i \in (j + 1)..Len(L) : \A k \in (j + 1)..i : ~re_hn_word(L[k])}

\* L without the lines whose numbers are in D
RECURSIVE Without(_, _, _)
Without(L, D, i) ==
    IF i > Len(L) THEN <<>>
    ELSE (IF i \in D THEN <<>> ELSE <<L[i]>>) \o Without(L, D, i + 1)

\* the rplc-config headings of L that are not inside the Development section
OutsideHeadings(L) ==
    {j \in 1..Len(L) : L[j] = RPLC_CONFIG_HEADING /\ ~InDevelopmentSection(L, j)}

\* C15 (parser scoping): a ## rplc-config heading that is not inside the
\* level-1 Development section (before the first level-1 Development
\* heading, or after another level-1 heading has followed it) contributes no
\* entry to the result of parse_config, whatever lines follow it: the result
\* is the same with the lines below that heading taken out.
C15_ParserScoping ==
    \A h \in Hosts :
        LET L == DocLines(doc[h])
        IN  \A j \in OutsideHeadings(L) :
                parse_config(doc[h])
                    = parse_config(TextFile(join(Without(L, BelowHeading(L, j), 1), <<NL>>)))

\* the paths of the entries parse_config returns for a config file
ParsedPaths(file) ==
    LET configs == parse_config(file)
    IN  {configs[i].source_path : i \in 1..Len(configs)}

\* C16 (one state machine): remove_config_entry runs the heading-state
\* machine of parse_config, so the lines it takes for removable entry lines
\* are the lines parse_config returns as entries: every entry parse_config
\* returns can be removed, and nothing parse_config does not return can be.
C16_SameStateMachine ==
    \A h \in Hosts :
        \A target \in Targets \cup ParsedPaths(doc[h]) :
            remove_config_entry(doc[h], AbsPath(target)).modified
                <=> target \in ParsedPaths(doc[h])

\* the path a line of the config document stands for: stripped, without a
\* trailing separator, variables and home directory resolved
ResolvedPath(line) == _resolve_env_vars(rstrip(strip(line), {"/"}))

\* C17 (frame of remove_config_entry): it deletes only lines whose resolved
\* path is the target; every other line is kept, content and order unchanged;
\* the document is left as it was unless a line was removed; it returns true
\* exactly when a line was removed.
C17_RemoveEntryFrame ==
    last.op = "remove_config_entry"
    => LET pre == last.pre.doc
           target == last.configs[1].source_path
           lines == splitlines_keepends(pre.text)
           matching == {i \in 1..Len(lines) :
                            ResolvedPath(lines[i]) \in {target, AbsPath(target)}}
       IN  \E removed \in SUBSET matching :
               /\ doc[last.host] = IF removed = {} THEN pre
                                   ELSE TextFile(join(Without(lines, removed, 1), <<>>))
               /\ remove_config_entry(pre, AbsPath(target)).modified <=> removed # {}

\* the same for the documents whose line endings are all "\n"
C17_RemoveEntryFrameLF ==
    (\A i \in 1..Len(last.pre.doc.text) : last.pre.doc.text[i] # CR)
    => C17_RemoveEntryFrame

\* the entries of a config document, bound to the project as a manager has
\* them
ManagedIn(file) == LET all == ManagerConfigs(file) IN {all[i] : i \in 1..Len(all)}

\* C18 (delete postcondition): when no selected entry has a sentinel, delete
\* removes the physical mirror content of every selected entry (the
\* neutralized form for a standalone .gitignore) and its backup, and its
\* line from the config document, so that a fresh parse does not return it;
\* every unselected entry keeps its mirror content and its config line.
C18_DeletePostcondition ==
    (/\ last.op = "delete"
     /\ last.configs # <<>>
     /\ \A c \in LastConfigs : SentinelHosts(last.pre.m, c) = {})
    => /\ \A c \in LastConfigs :
             /\ LET physical == _get_mirror_physical_path(last.pre.m, c)
                IN  physical # <<>> => ~Exists(mirror, physical[1])
             /\ ~Exists(mirror, _get_backup_path(c))
             /\ c \notin ManagedIn(doc[last.host])
       /\ \A d \in ManagedIn(last.pre.doc) \ LastConfigs :
             /\ MirrorContent(mirror, d) = MirrorContent(last.pre.m, d)
             /\ d \in ManagedIn(doc[last.host])

\* C19 (delete leaves the project alone): a delete, carried out or refused,
\* creates, modifies and removes no source content of any entry in the
\* project tree; the only file of the project it may rewrite is the config
\* document.
C19_DeleteKeepsSources ==
    last.op = "delete"
    => /\ proj[last.host] = last.pre.p
       /\ envrc[last.host] = last.pre.env

\* a delete that was carried out on an entry with source content and mirror
\* content: the mirror content and the config line are gone, the source is
\* there
C19_Witness ==
    /\ last.op = "delete"
    /\ last.exit = 0
    /\ \E c \in LastConfigs :
          /\ Exists(last.pre.p, c.source_path)
          /\ Exists(last.pre.m, c.mirror_path)
          /\ ~Exists(mirror, c.mirror_path)
          /\ doc[last.host] # last.pre.doc
          /\ Exists(proj[last.host], c.source_path)

\* the elements of a sequence
Range(q) == {q[i] : i \in 1..Len(q)}

\* an entry matches one of the glob patterns of a list
MatchesAny(c, patterns) == \E p \in Range(patterns) : fnmatch(rel_path(c), p)

\* C20 (selection filter): with neither explicit files nor a pattern the
\* selection is all configured entries, otherwise the entries matching an
\* explicit file together with the entries matching the pattern; in both
\* cases less the entries matching an exclude glob.  An explicit file with no
\* configured entry adds nothing and does not make the call fail.
C20_SelectionFilter ==
    last.op = "_filter_configs"
    => LET all == ManagedIn(doc[last.host])
           positive == IF last.files = <<>> /\ last.pattern = <<>>
                       THEN all
                       ELSE {c \in all : c.source_path \in Range(last.files)}
                            \cup {c \in all : /\ last.pattern # <<>>
                                              /\ fnmatch(rel_path(c), last.pattern)}
       IN  /\ Range(last.configs) = {c \in positive : ~MatchesAny(c, last.exclude)}
           /\ last.exit = 0

\* a call with an explicit file that is configured and one that is not, a
\* pattern that matches another entry, and an exclude pattern that takes an
\* entry away
C20_Witness ==
    /\ last.op = "_filter_configs"
    /\ N_other \in Range(last.files)
    /\ \E c \in Range(last.configs) :
          c.source_path \in Range(last.files) /\ ~fnmatch(rel_path(c), last.pattern)
    /\ last.pattern # <<>>
    /\ \E c \in ManagedIn(doc[last.host]) :
          fnmatch(rel_path(c), last.pattern) /\ MatchesAny(c, last.exclude)
    /\ Said("no_configuration_found", N_other)

\* the messages that end the body of an entry in swap_in and in swap_out, and
\* those of them that report a skipped entry
VerdictMsgs ==
    {"already_swapped_in", "swapped_in_on", "mirror_path_does_not_exist", "swapped_in",
     "already_swapped_out", "initialized_mirror", "swapped_out"}

SkipMsgs ==
    {"already_swapped_in", "swapped_in_on", "mirror_path_does_not_exist",
     "already_swapped_out"}

\* the verdicts a call printed, one after the other
VerdictsOf(out) == SelectSeq(out, LAMBDA e : e.msg \in VerdictMsgs)

\* the entries of the last call that were not skipped, in selection order
NotSkipped ==
    SelectSeq(last.configs,
              LAMBDA c : ~\E i \in 1..Len(last.out) :
                              last.out[i].path = rel_path(c) /\ last.out[i].msg \in SkipMsgs)

\* C21 (sequential processing): a swap_in that passed the pre-flight gate, or
\* a swap_out, prints one verdict per selected entry, in selection order; and
\* the entries it did not skip are processed as they are when the call
\* selects them alone: same verdicts, same mirror root, same project.
C21_EntriesInOrder ==
    (last.op \in {"swap_in", "swap_out"} /\ last.exit = 0)
    => /\ Len(VerdictsOf(last.out)) = Len(last.configs)
       /\ \A i \in 1..Len(last.configs) :
             VerdictsOf(last.out)[i].path = rel_path(last.configs[i])
       /\ \E W \in (IF last.op = "swap_in"
                     THEN swap_in(WorldBefore, NotSkipped, last.host, manage)
                     ELSE swap_out(WorldBefore, NotSkipped, manage)) :
             /\ W.m = mirror
             /\ W.p = proj[last.host]
             /\ VerdictsOf(W.out)
                  = SelectSeq(VerdictsOf(last.out), LAMBDA e : e.msg \notin SkipMsgs)

\* a swap_in of two entries that skipped the first, held by another host, and
\* swapped the second in
C21_Witness ==
    /\ last.op = "swap_in"
    /\ Len(last.configs) = 2
    /\ \E h \in HostNames \ {last.host} :
          SaidHost("swapped_in_on", rel_path(last.configs[1]), h)
    /\ Said("swapped_in", rel_path(last.configs[2]))
    /\ Exists(mirror, _get_sentinel_path(last.configs[2], last.host))

\* C22 (mirror initialization): a swap_out on an entry that has no sentinel
\* moves the source content into the mirror (.gitignore files neutralized),
\* leaving the source path absent and making no sentinel and no backup, when
\* the entry has no physical mirror content and its source exists; in every
\* other case without sentinel it leaves source, mirror content, backup and
\* sentinels of the entry as they were.
C22_MirrorInitialization ==
    \A c \in LastConfigs :
        (last.op = "swap_out" /\ SentinelHosts(last.pre.m, c) = {})
        => IF MirrorContent(last.pre.m, c) = <<>> /\ Exists(last.pre.p, c.source_path)
           THEN /\ SameButNamed(NodeAt(last.pre.p, c.source_path),
                                MirrorContent(mirror, c), GITIGNORE, DISABLED)
                /\ ~Exists(proj[last.host], c.source_path)
                /\ SentinelHosts(mirror, c) = {}
                /\ NodeAt(mirror, _get_backup_path(c)) = NodeAt(last.pre.m, _get_backup_path(c))
           ELSE /\ NodeAt(proj[last.host], c.source_path) = NodeAt(last.pre.p, c.source_path)
                /\ MirrorContent(mirror, c) = MirrorContent(last.pre.m, c)
                /\ SentinelHosts(mirror, c) = {}
                /\ NodeAt(mirror, _get_backup_path(c)) = NodeAt(last.pre.m, _get_backup_path(c))

\* the .gitignore files below a directory node, each with its path and bytes
GitignoresOf(node) ==
    {e \in Listing(node.ch) : ~e.dir /\ e.path[Len(e.path)] = GITIGNORE}

\* the last call was a swap_out that swapped out or initialized directory
\* entry c, whose source was a directory
SwappedOutDirectory(c) ==
    /\ last.op = "swap_out"
    /\ c \in LastConfigs
    /\ c.is_directory
    /\ is_dir(last.pre.p, c.source_path)
    /\ (Said("swapped_out", rel_path(c)) \/ Said("initialized_mirror", c.mirror_path))

\* C23 (.gitignore neutralization round): after a swap_out that swapped out
\* (or initialized) a directory entry, the entry's mirror content holds every
\* .gitignore file of the source, at any depth, as .gitignore.rplc-disabled
\* at the same relative path with the same bytes, has no bare .gitignore, and
\* the call has put no bare .gitignore anywhere in the mirror root; when the
\* next call is a swap_in that swaps the entry in, the project holds those
\* files again as .gitignore at the same paths with the same bytes.
C23_NeutralizationRound ==
    [][\A c \in LastConfigs :
          SwappedOutDirectory(c)
          => /\ is_dir(mirror, c.mirror_path)
             /\ \A e \in GitignoresOf(last.pre.p[c.source_path]) :
                   [e EXCEPT !.path = Renamed(@, GITIGNORE, DISABLED)]
                       \in Listing(mirror[c.mirror_path].ch)
             /\ rglob(mirror[c.mirror_path].ch, GITIGNORE) = {}
             /\ rglob(mirror, GITIGNORE) \subseteq rglob(last.pre.m, GITIGNORE)
             /\ (/\ last'.op = "swap_in"
                 /\ \E i \in 1..Len(last'.out) :
                       last'.out[i].msg = "swapped_in" /\ last'.out[i].path = rel_path(c))
                => /\ is_dir(proj'[last'.host], c.source_path)
                   /\ GitignoresOf(last.pre.p[c.source_path])
                        \subseteq Listing(proj'[last'.host][c.source_path].ch)]_vars

\* a directory entry with a nested .gitignore was swapped out and, by the next
\* call, swapped in again: the project holds the nested .gitignore
C23_Witness ==
    /\ last.op = "swap_in"
    /\ last.after.op = "swap_out"
    /\ \E c \in LastConfigs :
          /\ c.is_directory
          /\ SaidBefore("swapped_out", rel_path(c))
          /\ Said("swapped_in", rel_path(c))
          /\ is_dir(proj[last.host], c.source_path)
          /\ \E e \in GitignoresOf(proj[last.host][c.source_path]) : Len(e.path) >= 2
          /\ \E e \in Listing(last.pre.m[c.mirror_path].ch) :
                Len(e.path) >= 2 /\ e.path[Len(e.path)] = DISABLED

\* C24 (neutralization invariant): after any sequence of complete swap_in and
\* swap_out calls that began without a bare .gitignore under the mirror root,
\* there is no bare .gitignore anywhere under the mirror root, inside backups
\* and sentinels as well, and no .gitignore.rplc-disabled inside a managed
\* directory of a project.
C24_NeutralizationInvariant ==
    /\ rglob(mirror, GITIGNORE) = {}
    /\ \A h \in Hosts : \A c \in Managed(h) :
          (c.is_directory /\ is_dir(proj[h], c.source_path))
          => rglob(proj[h][c.source_path].ch, DISABLED) = {}

\* the lines of a .envrc, as _update_envrc reads them
EnvrcLines(env) == IF env.ex THEN splitlines(read_text(env.text)) ELSE <<>>

\* the marker-assignment lines of a .envrc: how many of its lines are the
\* line export RPLC_SWAPPED=1
MarkerAssignments(env) == Len(SelectSeq(EnvrcLines(env), LAMBDA line : line = ENVRC_MARKER))

\* C25 (setMarker is idempotent): applying _update_envrc once more with the
\* value it was just applied with leaves the .envrc as the first application
\* left it; after enabling (marker management on, .envrc present) the file
\* holds exactly one marker-assignment line, after disabling none.
C25_MarkerIdempotent ==
    last.op = "_update_envrc"
    => /\ _update_envrc(envrc[last.host], last.set_var, manage) = envrc[last.host]
       /\ (manage /\ last.pre.env.ex)
          => /\ MarkerAssignments(envrc[last.host]) = (IF last.set_var THEN 1 ELSE 0)
             /\ MarkerLines(envrc[last.host]) = (IF last.set_var THEN 1 ELSE 0)

\* the marker was enabled on a .envrc that held two marker lines and a line of
\* the user, ended by "\r\n"
C25_Witness ==
    /\ last.op = "_update_envrc"
    /\ manage
    /\ last.set_var
    /\ last.pre.env.ex
    /\ MarkerAssignments(last.pre.env) = 2
    /\ \E i \in 1..Len(last.pre.env.text) : last.pre.env.text[i] = CR
    /\ Len(EnvrcLines(envrc[last.host])) = 2
    /\ envrc[last.host] # last.pre.env

\* the lines of a .envrc other than the marker-assignment line
OtherLines(env) == SelectSeq(EnvrcLines(env), LAMBDA line : line # ENVRC_MARKER)

\* C26 (marker frame): setting or clearing the marker leaves the lines of the
\* .envrc other than the marker-assignment line export RPLC_SWAPPED=1 as
\* they were: the same lines in the same order.
C26_MarkerFrame ==
    (last.op = "_update_envrc" /\ manage /\ last.pre.env.ex)
    => OtherLines(envrc[last.host]) = OtherLines(last.pre.env)

\* C27 (marker not managed): a swap_in or swap_out made with marker management
\* off, or on a project that has no .envrc, leaves the .envrc as it was: not
\* created, not written; so no sequence of such calls creates or modifies it.
C27_MarkerNotManaged ==
    (last.op \in {"swap_in", "swap_out"} /\ (~manage \/ ~last.pre.env.ex))
    => envrc[last.host] = last.pre.env

\* with marker management off, a swap_in swapped an entry in on a project
\* that has a .envrc, and the .envrc has no marker line
C27_Witness ==
    /\ last.op = "swap_in"
    /\ ~manage
    /\ last.pre.env.ex
    /\ \E c \in LastConfigs :
          /\ Said("swapped_in", rel_path(c))
          /\ last.host \in SentinelHosts(mirror, c)
    /\ MarkerLines(envrc[last.host]) = 0

MinOf(S) == CHOOSE i \in S : \A j \in S : i <= j

\* a heading line of markdown: one # (when one is TRUE) or one # or more,
\* white space, and a title
IsHeadingLine(s, one) == HeadingRest(s, one) # <<>> /\ HeadingRest(s, one)[1] # <<>>

\* the line of the first level-1 Development heading of L, 0 when there is none
DevelopmentAt(L) ==
    LET S == {k \in 1..Len(L) : re_h1_development(L[k])}
    IN  IF S = {} THEN 0 ELSE MinOf(S)

\* the line of the first entries heading below it that the parser reaches:
\* no heading starting with Development comes before it; 0 when there is none
EntriesFoundAt(L) ==
    LET k == DevelopmentAt(L)
        S == {j \in (k + 1)..Len(L) :
                 /\ L[j] = RPLC_CONFIG_HEADING
                 /\ \A i \in (k + 1)..(j - 1) : ~re_hn_development(L[i])}
    IN  IF k = 0 \/ S = {} THEN 0 ELSE MinOf(S)

\* the lines after it that are a level-1 heading or a heading of any level
\* starting with Development
HeadingsThatEnd(L) ==
    {t \in (EntriesFoundAt(L) + 1)..Len(L) :
        IsHeadingLine(L[t], TRUE) \/ re_hn_development(L[t])}

\* C28 (first Development section only): once an entries-block has been
\* found, the first further level-1 heading, or heading of any level starting
\* with Development, ends parsing: no line after it contributes an entry, the
\* result of parse_config is its result on the lines before that heading.
C28_FirstSectionOnly ==
    LET L == DocLines(last.pre.doc)
    IN  (last.op = "parse_config" /\ EntriesFoundAt(L) # 0 /\ HeadingsThatEnd(L) # {})
        => last.configs
             = parse_config(TextFile(join(SubSeq(L, 1, MinOf(HeadingsThatEnd(L)) - 1), <<NL>>)))

\* a path line: not empty, no comment or heading, no description sentence
IsPathLine(s) == s # <<>> /\ Head(s) # "#" /\ ~re_prose(s)

\* the entry a path line stands for
EntryOf(s) == MirrorConfig(_resolve_env_vars(rstrip(s, {"/"})), s[Len(s)] = "/")

\* the line after the honored Development section that begins at line k of
\* L: the first further level-1 heading or heading starting with Development
SectionEnd(L, k) ==
    LET S == {t \in (k + 1)..Len(L) : IsHeadingLine(L[t], TRUE) \/ re_hn_development(L[t])}
    IN  IF S = {} THEN Len(L) + 1 ELSE MinOf(S)

\* line j of L is in an entries-block: the nearest heading above it is an
\* entries heading of the section that begins at line k
InEntriesBlock(L, k, j) ==
    \E b \in (k + 1)..(j - 1) :
        /\ L[b] = RPLC_CONFIG_HEADING
        /\ \A i \in (b + 1)..(j - 1) : ~IsHeadingLine(L[i], FALSE)

\* the entries of the path lines of the entries-blocks from line j to line
\* hi - 1, in document order
RECURSIVE BlockEntries(_, _, _, _)
BlockEntries(L, k, j, hi) ==
    IF j >= hi THEN <<>>
    ELSE (IF IsPathLine(L[j]) /\ InEntriesBlock(L, k, j) THEN <<EntryOf(L[j])>> ELSE <<>>)
         \o BlockEntries(L, k, j + 1, hi)

\* C29 (entries-blocks of the section): parse_config returns the path lines
\* of every ## rplc-config block of the honored Development section, in
\* document order, duplicates kept; any other heading of level 2 or deeper
\* ends the entries-block, the lines below it contribute no entry, and a
\* later ## rplc-config block of the section is parsed again.
C29_EntriesBlocks ==
    LET L == DocLines(last.pre.doc)
        k == DevelopmentAt(L)
    IN  (last.op = "parse_config" /\ k # 0)
        => last.configs = BlockEntries(L, k, k + 1, SectionEnd(L, k))

\* C30 (host conflict frame): a swap_in of an entry whose sentinel names a host
\* other than the local one leaves the entry's source content, mirror content,
\* backup and that sentinel as they were, and makes no sentinel for the local
\* host.
C30_ConflictFrame ==
    \A c \in LastConfigs : \A h1 \in HostNames \ {last.host} :
        (last.op = "swap_in" /\ SentinelHosts(last.pre.m, c) = {h1})
        => /\ NodeAt(proj[last.host], c.source_path) = NodeAt(last.pre.p, c.source_path)
           /\ NodeAt(mirror, c.mirror_path) = NodeAt(last.pre.m, c.mirror_path)
           /\ MirrorContent(mirror, c) = MirrorContent(last.pre.m, c)
           /\ NodeAt(mirror, _get_backup_path(c)) = NodeAt(last.pre.m, _get_backup_path(c))
           /\ NodeAt(mirror, _get_sentinel_path(c, h1)) = NodeAt(last.pre.m, _get_sentinel_path(c, h1))
           /\ ~Exists(mirror, _get_sentinel_path(c, last.host))

\* a swap_in was refused for an entry held by another host while the entry had
\* source content and mirror content that could have been swapped
C30_Witness ==
    /\ last.op = "swap_in"
    /\ \E c \in LastConfigs : \E h1 \in HostNames \ {last.host} :
          /\ SentinelHosts(last.pre.m, c) = {h1}
          /\ SaidHost("swapped_in_on", rel_path(c), h1)
          /\ Exists(last.pre.p, c.source_path)
          /\ MirrorContent(last.pre.m, c) # <<>>
          /\ Exists(mirror, _get_sentinel_path(c, h1))

----------------------------------------------------------------------------
(* The calls of two hosts interleaved.  The hosts are separate machines    *)
(* that share the mirror root, so nothing orders the filesystem calls of   *)
(* one swapin against those of another: a swapin is taken apart into its   *)
(* filesystem calls, and pc[h] holds where the swapin of host h stands:    *)
(*   at       : the call it makes next                                     *)
(*   configs  : the selected configs, i the number of the current entry    *)
(*   physical : what _get_mirror_physical_path returned for that entry     *)
(*   out, pre : the messages printed so far, the files when it began       *)

\* how many calls are made in an interleaved run (counted in edits)
MaxRaceCalls == 3

\* one file entry and one directory entry; each host has its own work in the
\* project file
RaceProject(h) ==
    Tree2(N_a_yml, File(IF h = H1 THEN "s" ELSE "t"), N_b, Dir(Tree1(N_note, File("s"))))

InitRace ==
    \E M \in SUBSET {N_a_yml}, P \in SUBSET {H1, H2} :
        /\ mirror = Restrict(TwoHostsTwoEntries.mir, DOMAIN TwoHostsTwoEntries.mir \ M)
        /\ proj = [h \in {H1, H2} |->
                     IF h \in P THEN Restrict(RaceProject(h), {N_b}) ELSE RaceProject(h)]
        /\ envrc = [h \in {H1, H2} |-> EnvrcText]
        /\ manage = TRUE
        /\ doc = [h \in {H1, H2} |-> TwoHostsTwoEntries.doc]
        /\ last = NoCall
        /\ edits = 0
        /\ pc = [h \in {H1, H2} |-> Idle]

\* the world the swapin in flight of host h works on
StepWorld(h) == [World(h) EXCEPT !.out = pc[h].out]

\* the state after one filesystem call of the swapin of host h that left
\* world W and goes on at position at of entry number i
Step(h, name, W, at, i, physical) ==
    /\ mirror' = W.m
    /\ proj' = [proj EXCEPT ![h] = W.p]
    /\ envrc' = [envrc EXCEPT ![h] = W.env]
    /\ pc' = [pc EXCEPT ![h] = [@ EXCEPT !.at = at, !.i = i, !.physical = physical,
                                         !.out = W.out]]
    /\ last' = [NoCall EXCEPT !.op = name, !.host = h,
                              !.configs = IF pc[h].at = "idle" THEN <<>>
                                          ELSE <<pc[h].configs[pc[h].i]>>]
    /\ UNCHANGED <<doc, manage, edits>>

\* the swapin of host h is over: it returned, or an exception ended it
EndSwapIn(h, W, configs, pre) ==
    /\ mirror' = W.m
    /\ proj' = [proj EXCEPT ![h] = W.p]
    /\ envrc' = [envrc EXCEPT ![h] = W.env]
    /\ pc' = [pc EXCEPT ![h] = Idle]
    /\ last' = [op |-> "swap_in", host |-> h, configs |-> configs,
                out |-> W.out, exit |-> W.exit,
                after |-> [op |-> "other", out |-> <<>>], pre |-> pre]
    /\ UNCHANGED <<doc, manage>>

\* rplc swapin on host h begins: the configs are selected, the pre-flight
\* scan is made and the marker is written
BeginSwapIn(h) ==
    /\ pc[h] = Idle
    /\ edits < MaxRaceCalls
    /\ edits' = edits + 1
    /\ \E call \in Calls(h) :
          LET bare_gitignores == _find_bare_gitignore_in_mirror(mirror, call.configs)
              pre == [m |-> mirror, p |-> proj[h], env |-> envrc[h], doc |-> doc[h]]
          IN  IF bare_gitignores # {}
              THEN EndSwapIn(h, BareGitignoreError(call.W, bare_gitignores), call.configs, pre)
              ELSE /\ mirror' = mirror
                   /\ proj' = proj
                   /\ envrc' = [envrc EXCEPT ![h] =
                                   IF call.configs # <<>>
                                   THEN _update_envrc(@, TRUE, manage) ELSE @]
                   /\ pc' = [pc EXCEPT ![h] =
                                [at |-> "check", configs |-> call.configs, i |-> 1,
                                 physical |-> <<>>, out |-> call.W.out, pre |-> pre]]
                   /\ last' = [NoCall EXCEPT !.op = "begin", !.host = h]
                   /\ UNCHANGED <<doc, manage>>

\* the entry the swapin of host h is at
CurrentConfig(h) == pc[h].configs[pc[h].i]

\* step 1 of an entry: the sentinel lookup; an entry that has a sentinel is
\* skipped
CheckSentinel(h) ==
    /\ pc[h].at = "check"
    /\ pc[h].i <= Len(pc[h].configs)
    /\ \E found \in _find_any_sentinel(mirror, CurrentConfig(h)) :
          IF found.found
          THEN Step(h, "check", SwapInEntry(StepWorld(h), CurrentConfig(h), h, found),
                    "check", pc[h].i + 1, <<>>)
          ELSE Step(h, "check", StepWorld(h), "resolve", pc[h].i, <<>>)

\* step 2 of an entry: the mirror content is looked up; an entry that has
\* none is skipped
ResolveMirror(h) ==
    /\ pc[h].at = "resolve"
    /\ LET physical_path == _get_mirror_physical_path(mirror, CurrentConfig(h))
       IN  IF physical_path = <<>>
           THEN Step(h, "resolve",
                     Say(StepWorld(h), "mirror_path_does_not_exist",
                         CurrentConfig(h).mirror_path, <<>>),
                     "check", pc[h].i + 1, <<>>)
           ELSE Step(h, "resolve", StepWorld(h), "sentinel", pc[h].i, physical_path)

\* an exception ends the swapin of host h: a path it was about to copy or
\* to move is no longer there
Raise(h) ==
    /\ UNCHANGED edits
    /\ EndSwapIn(h, [Say(StepWorld(h), "FileNotFoundError", pc[h].physical[1], <<>>)
                    EXCEPT !.exit = 1],
                 pc[h].configs, pc[h].pre)

\* step 3 of an entry: the mirror content is copied to the sentinel
CreateSentinel(h) ==
    /\ pc[h].at = "sentinel"
    /\ IF Exists(mirror, pc[h].physical[1])
       THEN Step(h, "sentinel",
                 SwapInSentinel(StepWorld(h), CurrentConfig(h), h, pc[h].physical[1]),
                 "backup", pc[h].i, pc[h].physical)
       ELSE Raise(h)

\* the original, when there is one, is moved to the backup
BackupSource(h) ==
    /\ pc[h].at = "backup"
    /\ Step(h, "backup", SwapInBackup(StepWorld(h), CurrentConfig(h)),
            "move", pc[h].i, pc[h].physical)

\* the mirror content is moved to the source path
MoveMirror(h) ==
    /\ pc[h].at = "move"
    /\ IF Exists(mirror, pc[h].physical[1])
       THEN Step(h, "move", SwapInMove(StepWorld(h), CurrentConfig(h), pc[h].physical[1]),
                 "enable", pc[h].i, pc[h].physical)
       ELSE Raise(h)

\* the .gitignore files of a directory are enabled and the entry is reported
EnableGitignores(h) ==
    /\ pc[h].at = "enable"
    /\ Step(h, "enable",
            Say(SwapInEnable(StepWorld(h), CurrentConfig(h)), "swapped_in",
                rel_path(CurrentConfig(h)), <<>>),
            "check", pc[h].i + 1, <<>>)

\* the loop is over and swapin returns
ReturnSwapIn(h) ==
    /\ pc[h].at = "check"
    /\ pc[h].i > Len(pc[h].configs)
    /\ EndSwapIn(h, StepWorld(h), pc[h].configs, pc[h].pre)
    /\ UNCHANGED edits

\* rplc swapout on host h, made while the other host may be in a swapin
SwapOutBetween(h) ==
    /\ pc[h] = Idle
    /\ edits < MaxRaceCalls
    /\ edits' = edits + 1
    /\ \E call \in Calls(h) :
          \E W \in swap_out(call.W, call.configs, manage) :
              Commit(h, "swap_out", call.configs, W)

DoBeginSwapIn == \E h \in Hosts : BeginSwapIn(h)
DoCheckSentinel == \E h \in Hosts : CheckSentinel(h)
DoResolveMirror == \E h \in Hosts : ResolveMirror(h)
DoCreateSentinel == \E h \in Hosts : CreateSentinel(h)
DoBackupSource == \E h \in Hosts : BackupSource(h)
DoMoveMirror == \E h \in Hosts : MoveMirror(h)
DoEnableGitignores == \E h \in Hosts : EnableGitignores(h)
DoReturnSwapIn == \E h \in Hosts : ReturnSwapIn(h)
DoSwapOutBetween == \E h \in Hosts : SwapOutBetween(h)

NextRace ==
    \/ DoBeginSwapIn \/ DoCheckSentinel \/ DoResolveMirror \/ DoCreateSentinel
    \/ DoBackupSource \/ DoMoveMirror \/ DoEnableGitignores \/ DoReturnSwapIn
    \/ DoSwapOutBetween

SpecRace == InitRace /\ [][NextRace]_vars

----------------------------------------------------------------------------
\* C31: check-then-act gap.  Between the sentinel lookup of an entry and the
\* creation of its sentinel the swapin looks at the sentinels no more: a host
\* that passed the lookup creates its sentinel next to whatever sentinels
\* are in the mirror root by then, so two hosts that both passed the lookup
\* leave two sentinels of the entry (the witness).
C31_CheckThenAct ==
    [][\A h \in Hosts :
          (pc[h].at = "sentinel" /\ pc'[h].at = "backup")
          => SentinelHosts(mirror', CurrentConfig(h))
               = SentinelHosts(mirror, CurrentConfig(h)) \cup {h}]_vars

\* both hosts passed the lookup of the same entry before either created its
\* sentinel, and now the entry has two sentinels, one per host
C31_Witness ==
    /\ last.op = "sentinel"
    /\ SentinelHosts(mirror, last.configs[1]) = {H1, H2}
    /\ pc[H1].at = "backup" /\ pc[H2].at = "backup"
    /\ SentinelHosts(pc[H1].pre.m, last.configs[1]) = {}
    /\ SentinelHosts(pc[H2].pre.m, last.configs[1]) = {}

----------------------------------------------------------------------------
\* C32: sentinel lookup round trip.  After a swapin of host H that swapped
\* entry E in, every result the lookup for E can give reports a sentinel and
\* the hostname H; after a swapout that swapped E out, the lookup for E
\* reports no sentinel.  (The lookup reads the shared mirror root only, so it
\* gives the same on every host.)
C32_LookupRoundTrip ==
    (last.op \in {"swap_in", "swap_out"} /\ last.exit = 0)
    => \A i \in 1..Len(last.configs) :
          LET c == last.configs[i]
          IN  /\ (last.op = "swap_in" /\ Said("swapped_in", rel_path(c)))
                 => \A found \in _find_any_sentinel(mirror, c) :
                       found.found /\ found.host = get_hostname(last.host)
              /\ (last.op = "swap_out" /\ Said("swapped_out", rel_path(c)))
                 => _find_any_sentinel(mirror, c) = {None}

----------------------------------------------------------------------------
\* a name of the mirror root that is a sentinel
IsSentinelName(n) == EndsWith(n, ACTIVE_SUFFIX)

\* C33: sentinel snapshot.  A sentinel appears in the mirror root only by a
\* swapin of the entry, as a copy of the physical mirror content the entry
\* has at that moment; while it is there no call changes it; and it goes
\* only by a swapout (complete, or killed after it removed the sentinel).
C33_SentinelSnapshot ==
    [][(\A n \in {x \in DOMAIN mirror : IsSentinelName(x)} :
           IF n \in DOMAIN mirror'
           THEN mirror'[n] = mirror[n]
           ELSE last'.op \in {"swap_out", "swap_out_interrupted"})
       /\ (\A s \in {x \in DOMAIN mirror' : IsSentinelName(x)} \ DOMAIN mirror :
              /\ last'.op \in {"swap_in", "swap_in_interrupted", "sentinel"}
              /\ \E i \in 1..Len(last'.configs) :
                    LET c == last'.configs[i]
                        physical == _get_mirror_physical_path(mirror, c)
                    IN  /\ s = _get_sentinel_path(c, last'.host)
                        /\ physical # <<>>
                        /\ mirror'[s] = mirror[physical[1]])]_vars

\* a sentinel that was in the mirror root before a call that swapped some
\* entry out, or that refused to delete, is still there after it
C33_Witness ==
    /\ \/ last.op = "swap_out" /\ \E i \in 1..Len(last.out) : last.out[i].msg = "swapped_out"
       \/ last.op = "delete" /\ last.exit = 1
    /\ \E n \in DOMAIN mirror :
          IsSentinelName(n) /\ n \in DOMAIN last.pre.m /\ mirror[n] = last.pre.m[n]

----------------------------------------------------------------------------
\* C34: sentinel lookup isolation.  Whatever the lookup for a managed entry
\* returns is a sentinel of that entry: the name the code gives the
\* sentinel of that entry on the host the lookup recovers.
C34_LookupIsolation ==
    \A h \in Hosts : \A configs \in {ManagerConfigs(doc[h])} :
        \A i \in 1..Len(configs) :
            \A found \in _find_any_sentinel(mirror, configs[i]) :
                found.found => found.path = _get_sentinel_path(configs[i], found.host)

----------------------------------------------------------------------------
\* the contents of the files of a node, at any depth
RECURSIVE DataOf(_)
DataOf(node) ==
    IF node.dir
    THEN UNION {DataOf(node.ch[n]) : n \in DOMAIN node.ch}
    ELSE {node.data}

\* the source of config c in project tree p holds swapped-in mirror content:
\* content "m" is what the mirror roots start with, no project starts with it
\* and no edit writes it, so it reaches a project by a swapin only, and a
\* swapout moves it away again
HoldsMirrorContent(p, c) ==
    Exists(p, c.source_path) /\ "m" \in DataOf(p[c.source_path])

\* C35: step ordering inside an entry's transition.  The sentinel is created
\* before the mirror content reaches the source and deleted after the source
\* was stored, hence in every state, also after a call killed part-way,
\* an entry whose source holds swapped-in mirror content has a sentinel.
C35_SentinelWhileSwappedIn ==
    \A h \in Hosts : \A c \in Managed(h) :
        HoldsMirrorContent(proj[h], c) => SentinelHosts(mirror, c) # {}

----------------------------------------------------------------------------
----------------------------------------------------------------------------
\* C37: the backup is kept while the entry has a sentinel.  No step of a
\* swapin, of either host and in any interleaving, overwrites or removes the
\* backup of an entry that has a sentinel: the backup stays as it was
\* written until a swapout (complete or killed part-way) moves it back.
C37_BackupKept ==
    [][\A h \in Hosts : \A c \in Managed(h) :
          (Exists(mirror, _get_backup_path(c)) /\ SentinelHosts(mirror, c) # {})
          => \/ NodeAt(mirror', _get_backup_path(c)) = NodeAt(mirror, _get_backup_path(c))
             \/ last'.op \in {"swap_out", "swap_out_interrupted"}]_vars

----------------------------------------------------------------------------
\* C38: swapout never loses the mirror content.  After a swapout that
\* swapped an entry out (it deleted the entry's sentinel), the entry has
\* physical mirror content in the mirror root.
C38_MirrorContentKept ==
    \A c \in LastConfigs :
        (last.op = "swap_out" /\ Said("swapped_out", rel_path(c)))
        => _get_mirror_physical_path(mirror, c) # <<>>

=============================================================================
